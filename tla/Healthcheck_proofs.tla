------------------------- MODULE Healthcheck_proofs -------------------------
(***************************************************************************)
(* The health checks of Healthcheck for any number of checks, any          *)
(* configuration and any number of runs of the container.                  *)
(***************************************************************************)
EXTENDS Healthcheck, TLAPS

\* The two units of this run, and which of them is due.
Old == [run |-> run, startup |-> TRUE]
New == [run |-> run, startup |-> FALSE]
Due == cfg.startup /\ ~startup.Passed

\* The units there are: that of the check that is due, both while one is exchanged
\* for the other under the lock, and none when the container was cleaned up.
Timers ==
    /\ st = "exited" => units = {}
    /\ \A c \in Checks :
          /\ check[c].pc = "timer" => /\ st # "exited" /\ unit = Old /\ units = {Old}
                                      /\ startup.Passed
          /\ check[c].pc = "remove" => /\ st # "exited" /\ unit = New /\ units = {Old, New}
                                       /\ startup.Passed
    /\ Unlocked /\ st # "exited" =>
          unit = [run |-> run, startup |-> Due] /\ units \subseteq {unit}
    /\ Unlocked /\ st = "running" => units = {unit}

\* A check lives in one of these units, of this run, and is of that unit's kind.
CheckOf(c) ==
    /\ check[c].pc # "idle" => check[c].unit \in units
    /\ check[c].pc \in {"exec", "count", "timer", "remove", "restart", "log", "act"} =>
          check[c].run = run /\ check[c].startup = check[c].unit.startup
    /\ check[c].pc \in {"count", "timer", "remove", "restart"} => check[c].startup
    /\ check[c].pc = "restart" => st = "dead"
    /\ check[c].pc = "act" => log.Status = "unhealthy"
    /\ check[c].pc \in {"which", "exec", "count"} /\ cfg.startup /\ cfg.StartupRetries # 0 =>
          st = "running"

\* A unit runs one check at a time.
Alone ==
    \A c, d \in Checks : check[c].unit = check[d].unit /\ check[c].pc # "idle"
                         /\ check[d].pc # "idle" => c = d

\* The log and the counters say what the checks of this run have found.
Founded ==
    /\ log.FailingStreak = seen.bad
    /\ log.Status = "unhealthy" => seen.bad >= cfg.Retries
    /\ log.Status = "healthy" => seen.good
    /\ seen.passes >= cfg.Successes \/ (~startup.Passed /\ seen.passes >= startup.Successes)

TameInv == Timers /\ (\A c \in Checks : CheckOf(c)) /\ Alone /\ Founded

IInv == HealthTypeOK /\ (Tame => TameInv)

---------------------------------------------------------------------------
Steps == {"idle", "begin", "which", "exec", "count", "timer", "remove", "restart", "log", "act"}

\* The fields of a check.
LEMMA RunnerFacts ==
    ASSUME NEW k \in Runners
    PROVE  /\ k.pc \in Steps /\ k.unit \in Units \cup {NoUnit} /\ k.startup \in BOOLEAN
           /\ k.run \in Nat /\ k.young \in BOOLEAN /\ k.ok \in BOOLEAN
           /\ \A pc \in Steps : /\ [k EXCEPT !.pc = pc] \in Runners
                                /\ [k EXCEPT !.pc = pc].pc = pc
                                /\ [k EXCEPT !.pc = pc].unit = k.unit
                                /\ [k EXCEPT !.pc = pc].startup = k.startup
                                /\ [k EXCEPT !.pc = pc].run = k.run
                                /\ [k EXCEPT !.pc = pc].young = k.young
                                /\ [k EXCEPT !.pc = pc].ok = k.ok
  BY Zenon DEF Runners, Steps

LEMMA IdleFacts ==
    /\ NoCheck \in Runners /\ NoCheck.pc = "idle" /\ NoCheck.unit = NoUnit
    /\ \A u \in Units \cup {NoUnit} :
          /\ [NoCheck EXCEPT !.pc = "begin", !.unit = u] \in Runners
          /\ [NoCheck EXCEPT !.pc = "begin", !.unit = u].pc = "begin"
          /\ [NoCheck EXCEPT !.pc = "begin", !.unit = u].unit = u
  BY Zenon DEF NoCheck, Runners

\* The two kinds of units of a run.
LEMMA UnitFacts ==
    ASSUME HealthConfigured, NEW n \in Nat, NEW b \in BOOLEAN
    PROVE  /\ [run |-> n, startup |-> b] \in Units /\ [run |-> n, startup |-> b] # NoUnit
           /\ [run |-> n, startup |-> b].startup = b /\ [run |-> n, startup |-> b].run = n
<1>1. [run |-> n, startup |-> b] \in Units
  BY Zenon DEF Units
<1> QED
  BY Zenon, <1>1 DEF HealthConfigured

\* What a configuration consists of.
LEMMA SystemFacts ==
    ASSUME HealthConfigured, HealthTypeOK
    PROVE  /\ cfg.startup \in BOOLEAN /\ cfg.period \in BOOLEAN /\ cfg.Successes \in Nat
           /\ cfg.StartupRetries \in Nat /\ cfg.Retries \in Nat
<1>1. cfg \in [startup : BOOLEAN, Successes : Nat, StartupRetries : Nat, Retries : Nat,
               period : BOOLEAN, kube : BOOLEAN, notify : BOOLEAN, policy : BOOLEAN,
               action : {"none", "kill", "restart", "stop"},
               faults : SUBSET {"exit", "stop", "die", "overtake", "user"}]
  BY Zenon DEF HealthConfigured, HealthTypeOK
<1> QED
  BY Zenon, <1>1

\* What systemd leaves of the checks when it stops a unit.
LEMMA StoppedFacts ==
    ASSUME HealthTypeOK, NEW u
    PROVE  /\ removeTransientFiles(u) \in [Checks -> Runners]
           /\ \A c \in Checks : removeTransientFiles(u)[c] =
                 IF check[c].unit = u /\ u # NoUnit THEN NoCheck ELSE check[c]
<1>1. check \in [Checks -> Runners] /\ NoCheck \in Runners
  BY Zenon, IdleFacts DEF HealthTypeOK
<1> QED
  BY Zenon, <1>1 DEF removeTransientFiles

\* One check goes to another step.
LEMMA GotoFacts ==
    ASSUME HealthTypeOK, NEW c \in Checks, NEW pc \in Steps, Goto(c, pc)
    PROVE  /\ check' \in [Checks -> Runners]
           /\ \A d \in Checks \ {c} : check'[d] = check[d]
           /\ check'[c].pc = pc /\ check'[c].unit = check[c].unit
           /\ check'[c].startup = check[c].startup /\ check'[c].run = check[c].run
<1>1. check \in [Checks -> Runners]
  BY Zenon DEF HealthTypeOK
<1>2. check' = [check EXCEPT ![c] = [check[c] EXCEPT !.pc = pc]]
  BY Zenon DEF Goto
<1>3. check[c] \in Runners
  BY Zenon, <1>1
<1>4. [check[c] EXCEPT !.pc = pc] \in Runners
  BY Zenon, <1>3, RunnerFacts
<1>5. /\ check' \in [Checks -> Runners] /\ check'[c] = [check[c] EXCEPT !.pc = pc]
      /\ \A d \in Checks \ {c} : check'[d] = check[d]
  BY Zenon, <1>1, <1>2, <1>4
<1> QED
  BY <1>3, <1>5, RunnerFacts

\* init and start of a run.
LEMMA StartRunFacts ==
    ASSUME HealthConfigured, HealthTypeOK, NEW left, left \subseteq Units, StartRun(left)
    PROVE  /\ st' = "running" /\ byUser' = FALSE /\ young' \in BOOLEAN
           /\ run' = run + 1 /\ run' \in Nat
           /\ startup' \in Counters /\ startup'.Passed = FALSE /\ startup'.Successes = 0
           /\ log' \in Logs /\ log'.Status = "starting" /\ log'.FailingStreak = 0
           /\ unit' = [run |-> run', startup |-> cfg.startup] /\ unit' \in Units
           /\ units' = left \cup {unit'} /\ units' \subseteq Units
           /\ seen' \in Histories /\ seen'.bad = 0 /\ seen'.passes = 0
<1>1. run \in Nat
  BY Zenon DEF HealthTypeOK
<1>2. run + 1 \in Nat /\ cfg.startup \in BOOLEAN /\ cfg.period \in BOOLEAN
  BY <1>1, SystemFacts
<1>3. /\ run' = run + 1 /\ st' = "running" /\ byUser' = FALSE /\ young' = cfg.period
      /\ startup' = [Passed |-> FALSE, Successes |-> 0, Failures |-> 0]
      /\ log' = [Status |-> "starting", FailingStreak |-> 0]
      /\ unit' = [run |-> run + 1, startup |-> cfg.startup]
      /\ units' = left \cup {unit'} /\ seen' = NothingSeen
  BY Zenon DEF StartRun
<1>4. startup' \in Counters /\ startup'.Passed = FALSE /\ startup'.Successes = 0
  BY Zenon, <1>3 DEF Counters
<1>5. log' \in Logs /\ log'.Status = "starting" /\ log'.FailingStreak = 0
  BY Zenon, <1>3 DEF Logs
<1>6. seen' \in Histories /\ seen'.bad = 0 /\ seen'.passes = 0
  BY Zenon, <1>3 DEF NothingSeen, Histories
<1>7. unit' \in Units
  BY Zenon, <1>2, <1>3 DEF Units
<1> QED
  BY Zenon, <1>2, <1>3, <1>4, <1>5, <1>6, <1>7

\* What a failed check makes of the log.
LEMMA FailedFacts ==
    ASSUME HealthConfigured, HealthTypeOK, NEW b \in BOOLEAN
    PROVE  /\ Failed(b) \in Logs
           /\ b => Failed(b) = log
           /\ ~b => /\ Failed(b).FailingStreak = Saturate(log.FailingStreak + 1, cfg.Retries)
                    /\ Failed(b).Status = IF Failed(b).FailingStreak >= cfg.Retries
                                          THEN "unhealthy" ELSE log.Status
<1> DEFINE n == Saturate(log.FailingStreak + 1, cfg.Retries)
<1>1. /\ log \in Logs /\ log.FailingStreak \in Nat /\ cfg.Retries \in Nat
      /\ log.Status \in {"none", "starting", "healthy", "unhealthy"}
  BY Zenon, SystemFacts DEF HealthTypeOK, Logs
<1>2. n \in Nat
  BY <1>1 DEF Saturate
<1>3. Failed(b) = IF b THEN log
                  ELSE [Status |-> IF n >= cfg.Retries THEN "unhealthy" ELSE log.Status,
                        FailingStreak |-> n]
  BY Zenon DEF Failed
<1> HIDE DEF n
<1>4. CASE b
  BY Zenon, <1>1, <1>3, <1>4
<1>5. CASE ~b
  <2>1. /\ Failed(b).FailingStreak = n
        /\ Failed(b).Status = IF n >= cfg.Retries THEN "unhealthy" ELSE log.Status
    BY <1>3, <1>5
  <2>2. Failed(b) \in Logs
    BY <1>1, <1>2, <1>3, <1>5 DEF Logs
  <2> QED
    BY Zenon, <1>5, <2>1, <2>2 DEF n
<1> QED
  BY Zenon, <1>4, <1>5


---------------------------------------------------------------------------
\* Every step keeps the state in range, whatever the configuration.
LEMMA TypeStep ==
    ASSUME HealthConfigured, HealthTypeOK, [HealthNext]_healthVars
    PROVE  HealthTypeOK'
<1>0. /\ check \in [Checks -> Runners] /\ units \subseteq Units /\ unit \in Units \cup {NoUnit}
      /\ run \in Nat /\ startup \in Counters /\ log \in Logs /\ seen \in Histories /\ deaths \in Nat
      /\ waiter \in [pc : {"none", "state", "status", "ready", "error"}, stopped : Nat]
  BY Zenon DEF HealthTypeOK
<1>00. cfg' = cfg
  BY Zenon DEF HealthNext, Start, ContainerExits, ContainerCleanup, StartPeriodEnds, waitForHealthy,
         PollState, PollStatus,
         Fire, Check, CheckDies, checkHealthCheckCanBeRun, HealthCheck, ExecEnds, Counting,
         incrementStartupHCSuccessCounter, createTimer, RemoveOldUnit,
         incrementStartupHCFailureCounter, restartWithTimeout, updateHealthCheckLog,
         processHealthCheckStatus, healthVars
<1> USE DEF ctrVars
<1>1. CASE Start
  <2>1. waiter' \in [pc : {"none", "state", "status", "ready", "error"}, stopped : Nat]
    BY Zenon, <1>0, <1>1 DEF Start
  <2>2. StartRun(units) /\ UNCHANGED <<check, deaths>>
    BY Zenon, <1>1 DEF Start
  <2> QED
    BY Zenon, <1>0, <1>00, <2>1, <2>2, StartRunFacts DEF HealthTypeOK
<1>2. CASE ContainerExits
  BY Zenon, <1>2 DEF ContainerExits, HealthTypeOK
<1>3. CASE ContainerCleanup
  <2>1. check' \in [Checks -> Runners] /\ UNCHANGED <<waiter, deaths>>
    BY Zenon, <1>3, StoppedFacts DEF ContainerCleanup
  <2>2. CASE StartRun(units \ {unit})
    <3>1. units \ {unit} \subseteq Units
      BY Zenon, <1>0
    <3> QED
      BY Zenon, <1>00, <2>1, <2>2, <3>1, StartRunFacts DEF HealthTypeOK
  <2>3. CASE /\ st' = "exited" /\ units' = units \ {unit}
             /\ UNCHANGED <<byUser, run, young, startup, unit, log, seen>>
    BY Zenon, <1>0, <1>00, <2>1, <2>3 DEF HealthTypeOK
  <2> QED
    BY Zenon, <1>3, <2>2, <2>3 DEF ContainerCleanup
<1>4. CASE StartPeriodEnds
  BY Zenon, <1>4 DEF StartPeriodEnds, HealthTypeOK
<1>5. CASE waitForHealthy
  <2>1. waiter' \in [pc : {"none", "state", "status", "ready", "error"}, stopped : Nat]
    BY <1>0, <1>5 DEF waitForHealthy, PollState, PollStatus
  <2> QED
    BY Zenon, <1>5, <2>1 DEF waitForHealthy, PollState, PollStatus, HealthTypeOK
<1>6. ASSUME NEW c \in Checks, Fire(c) PROVE HealthTypeOK'
  <2>1. PICK u \in Units \cup {NoUnit} :
            check' = [check EXCEPT ![c] = [NoCheck EXCEPT !.pc = "begin", !.unit = u]]
    BY Zenon, <1>0, <1>6 DEF Fire
  <2>2. check' \in [Checks -> Runners]
    BY Zenon, <1>0, <2>1, IdleFacts
  <2> QED
    BY Zenon, <1>6, <2>2 DEF Fire, HealthTypeOK
<1>7. ASSUME NEW c \in Checks, checkHealthCheckCanBeRun(c) PROVE HealthTypeOK'
  <2>1. check[c] \in Runners /\ "which" \in Steps
    BY Zenon, <1>0 DEF Steps
  <2>2. [check[c] EXCEPT !.pc = "which"] \in Runners
    BY Zenon, <2>1, RunnerFacts
  <2>3. check' \in [Checks -> Runners]
    BY Zenon, <1>0, <1>7, <2>2, IdleFacts DEF checkHealthCheckCanBeRun
  <2> QED
    BY Zenon, <1>7, <2>3 DEF checkHealthCheckCanBeRun, HealthTypeOK
<1>8. ASSUME NEW c \in Checks, HealthCheck(c) PROVE HealthTypeOK'
  <2>1. check' \in [Checks -> Runners]
    <3> DEFINE b == cfg.startup /\ ~startup.Passed
               k == [check[c] EXCEPT !.pc = "exec", !.startup = b, !.run = run, !.young = young]
    <3>1. check' = [check EXCEPT ![c] = k]
      BY Zenon, <1>8 DEF HealthCheck
    <3>2. b \in BOOLEAN /\ run \in Nat /\ young \in BOOLEAN /\ check[c] \in Runners
      BY Zenon, <1>0 DEF HealthTypeOK
    <3> HIDE DEF b
    <3>3. k \in Runners
      BY Zenon, <3>2 DEF Runners
    <3> HIDE DEF k
    <3> QED
      BY Zenon, <1>0, <3>1, <3>3
  <2> QED
    BY Zenon, <1>8, <2>1 DEF HealthCheck, HealthTypeOK
<1>9. ASSUME NEW c \in Checks, ExecEnds(c) PROVE HealthTypeOK'
  <2>1. check' \in [Checks -> Runners]
    <3>1. PICK ok \in BOOLEAN : check' = [check EXCEPT ![c].ok = ok,
                                    ![c].pc = IF check[c].startup THEN "count" ELSE "log"]
      BY Zenon, <1>9 DEF ExecEnds
    <3> DEFINE pc == IF check[c].startup THEN "count" ELSE "log"
               k == [check[c] EXCEPT !.ok = ok, !.pc = pc]
    <3>2. check' = [check EXCEPT ![c] = k]
      BY Zenon, <3>1
    <3>3. pc \in {"count", "log"} /\ check[c] \in Runners
      BY Zenon, <1>0
    <3> HIDE DEF pc
    <3>4. k \in Runners
      BY Zenon, <3>3 DEF Runners
    <3> HIDE DEF k
    <3> QED
      BY Zenon, <1>0, <3>2, <3>4
  <2> QED
    BY Zenon, <1>9, <2>1 DEF ExecEnds, HealthTypeOK
<1>10. ASSUME NEW c \in Checks, incrementStartupHCSuccessCounter(c) PROVE HealthTypeOK'
  <2>1. check' \in [Checks -> Runners]
    <3>1. \E pc \in {"timer", "log"} : Goto(c, pc)
      BY Zenon, <1>10 DEF incrementStartupHCSuccessCounter
    <3> QED
      BY Zenon, <3>1, GotoFacts DEF Steps
  <2>2. startup' \in Counters
    BY <1>0, <1>10 DEF incrementStartupHCSuccessCounter, Counters
  <2>3. seen' \in Histories
    <3>1. Saturate(seen.passes + 1, cfg.Successes) \in Nat
      BY <1>0, SystemFacts DEF Saturate, Histories
    <3>2. [seen EXCEPT !.passes = Saturate(seen.passes + 1, cfg.Successes)] \in Histories
      BY Zenon, <1>0, <3>1 DEF Histories
    <3> QED
      BY Zenon, <1>0, <1>10, <3>2 DEF incrementStartupHCSuccessCounter
  <2> QED
    BY Zenon, <1>10, <2>1, <2>2, <2>3 DEF incrementStartupHCSuccessCounter, HealthTypeOK
<1>11. ASSUME NEW c \in Checks, createTimer(c) PROVE HealthTypeOK'
  <2>1. check' \in [Checks -> Runners]
    BY Zenon, <1>11, GotoFacts DEF createTimer, Steps
  <2>2. unit' \in Units /\ units' \subseteq Units
    <3>1. unit' = [run |-> run, startup |-> FALSE] /\ units' = units \cup {unit'}
      BY Zenon, <1>11 DEF createTimer
    <3>2. unit' \in Units
      BY Zenon, <1>0, <3>1, UnitFacts
    <3> QED
      BY Zenon, <1>0, <3>1, <3>2
  <2> QED
    BY Zenon, <1>11, <2>1, <2>2 DEF createTimer, HealthTypeOK
<1>12. ASSUME NEW left \in [Checks -> Runners], NEW c \in Checks, NEW pc \in Steps
       PROVE  [left EXCEPT ![c].pc = pc] \in [Checks -> Runners]
  <2>1. left[c] \in Runners
    BY Zenon
  <2>2. [left[c] EXCEPT !.pc = pc] \in Runners
    BY Zenon, <2>1, RunnerFacts
  <2>3. [left EXCEPT ![c].pc = pc] = [left EXCEPT ![c] = [left[c] EXCEPT !.pc = pc]]
    BY Zenon
  <2> QED
    BY Zenon, <2>2, <2>3
<1>13. ASSUME NEW c \in Checks, RemoveOldUnit(c) PROVE HealthTypeOK'
  <2>1. check' \in [Checks -> Runners]
    <3> DEFINE left == removeTransientFiles([run |-> run, startup |-> TRUE])
    <3>1. check' = IF left[c] = NoCheck THEN left ELSE [left EXCEPT ![c].pc = "log"]
      BY Zenon, <1>13 DEF RemoveOldUnit
    <3>2. left \in [Checks -> Runners] /\ "log" \in Steps
      BY Zenon, StoppedFacts DEF Steps
    <3> HIDE DEF left
    <3>3. [left EXCEPT ![c].pc = "log"] \in [Checks -> Runners]
      BY Zenon, <1>12, <3>2
    <3> QED
      BY Zenon, <3>1, <3>2, <3>3
  <2>2. units' \subseteq Units
    BY Zenon, <1>0, <1>13 DEF RemoveOldUnit
  <2> QED
    BY Zenon, <1>13, <2>1, <2>2 DEF RemoveOldUnit, HealthTypeOK
<1>14. ASSUME NEW c \in Checks, incrementStartupHCFailureCounter(c) PROVE HealthTypeOK'
  <2>1. check' \in [Checks -> Runners] /\ UNCHANGED <<waiter, deaths>>
    <3>1. \E pc \in {"log", "restart"} : Goto(c, pc)
      BY Zenon, <1>14 DEF incrementStartupHCFailureCounter
    <3>2. UNCHANGED <<waiter, deaths>>
      BY Zenon, <1>14 DEF incrementStartupHCFailureCounter
    <3> QED
      BY Zenon, <3>1, <3>2, GotoFacts DEF Steps
  <2> DEFINE n == Saturate(startup.Failures + 1, cfg.StartupRetries)
  <2>2. n \in Nat
    BY <1>0, SystemFacts DEF Saturate, Counters
  <2>3. [startup EXCEPT !.Failures = n] \in Counters
    <3> HIDE DEF n
    <3> QED
      BY Zenon, <1>0, <2>2 DEF Counters
  <2>4. CASE StartRun(units)
    BY Zenon, <1>0, <1>00, <2>1, <2>4, StartRunFacts DEF HealthTypeOK
  <2>5. CASE ~StartRun(units)
    <3>1. startup' = startup \/ startup' = [startup EXCEPT !.Failures = n]
      BY Zenon, <1>14, <2>5 DEF incrementStartupHCFailureCounter
    <3>2. startup' \in Counters
      BY Zenon, <1>0, <2>3, <3>1
    <3>3. seen' = seen \/ seen' = [seen EXCEPT !.restart = TRUE]
      BY Zenon, <1>14, <2>5 DEF incrementStartupHCFailureCounter
    <3>4. seen' \in Histories
      BY Zenon, <1>0, <3>3 DEF Histories
    <3>5. /\ UNCHANGED <<run, young, unit, units, log>>
          /\ UNCHANGED <<st, byUser>> \/ (st' = "dead" /\ byUser' = TRUE)
      BY Zenon, <1>14, <2>5 DEF incrementStartupHCFailureCounter
    <3> QED
      BY Zenon, <1>00, <2>1, <3>2, <3>4, <3>5 DEF HealthTypeOK
  <2> QED
    BY Zenon, <2>4, <2>5
<1>15. ASSUME NEW c \in Checks, restartWithTimeout(c) PROVE HealthTypeOK'
  <2>1. check' \in [Checks -> Runners] /\ UNCHANGED <<waiter, deaths>>
    <3> DEFINE left == removeTransientFiles(unit)
    <3>1. check' = IF left[c] = NoCheck THEN left ELSE [left EXCEPT ![c].pc = "log"]
      BY Zenon, <1>15 DEF restartWithTimeout
    <3>2. left \in [Checks -> Runners] /\ "log" \in Steps
      BY Zenon, StoppedFacts DEF Steps
    <3> HIDE DEF left
    <3>3. [left EXCEPT ![c].pc = "log"] \in [Checks -> Runners]
      BY Zenon, <1>12, <3>2
    <3> QED
      BY Zenon, <1>15, <3>1, <3>2, <3>3 DEF restartWithTimeout
  <2>2. CASE StartRun(units \ {unit})
    <3>1. units \ {unit} \subseteq Units
      BY Zenon, <1>0
    <3> QED
      BY Zenon, <1>00, <2>1, <2>2, <3>1, StartRunFacts DEF HealthTypeOK
  <2>3. CASE units' = units \ {unit} /\ UNCHANGED <<ctrVars, startup, unit, log, seen>>
    BY Zenon, <1>0, <1>00, <2>1, <2>3 DEF HealthTypeOK
  <2> QED
    BY Zenon, <1>15, <2>2, <2>3 DEF restartWithTimeout
<1>16. ASSUME NEW c \in Checks, updateHealthCheckLog(c) PROVE HealthTypeOK'
  <2>1. check[c] \in Runners /\ "act" \in Steps
    BY Zenon, <1>0 DEF Steps
  <2>2. [check[c] EXCEPT !.pc = "act"] \in Runners /\ check[c].startup \in BOOLEAN
        /\ check[c].young \in BOOLEAN
    BY Zenon, <2>1, RunnerFacts
  <2>3. check' \in [Checks -> Runners]
    <3>1. PICK k \in {NoCheck, [check[c] EXCEPT !.pc = "act"]} : check' = [check EXCEPT ![c] = k]
      BY Zenon, <1>16 DEF updateHealthCheckLog
    <3>2. k \in Runners
      BY Zenon, <2>2, <3>1, IdleFacts
    <3> QED
      BY Zenon, <1>0, <3>1, <3>2
  <2>4. log' \in Logs
    <3>1. (check[c].startup \/ check[c].young) \in BOOLEAN
      BY Zenon, <2>2
    <3>2. Failed(check[c].startup \/ check[c].young) \in Logs
      BY Zenon, <3>1, FailedFacts
    <3>3. [Status |-> "healthy", FailingStreak |-> 0] \in Logs
      BY Zenon DEF Logs
    <3>4. \/ log' = log \/ log' = [Status |-> "healthy", FailingStreak |-> 0]
          \/ log' = Failed(check[c].startup \/ check[c].young)
      BY Zenon, <1>16 DEF updateHealthCheckLog
    <3> QED
      BY Zenon, <1>0, <3>2, <3>3, <3>4
  <2>5. seen' \in Histories
    <3>1. Saturate(seen.bad + 1, cfg.Retries) \in Nat
      BY <1>0, SystemFacts DEF Saturate, Histories
    <3>2. [seen EXCEPT !.bad = Saturate(seen.bad + 1, cfg.Retries)] \in Histories
      BY Zenon, <1>0, <3>1 DEF Histories
    <3>3. [seen EXCEPT !.bad = 0, !.good = TRUE] \in Histories
      BY Zenon, <1>0 DEF Histories
    <3>4. \/ seen' = seen \/ seen' = [seen EXCEPT !.bad = 0, !.good = TRUE]
          \/ seen' = [seen EXCEPT !.bad = Saturate(seen.bad + 1, cfg.Retries)]
      BY Zenon, <1>16 DEF updateHealthCheckLog
    <3> QED
      BY Zenon, <1>0, <3>2, <3>3, <3>4
  <2>6. UNCHANGED <<cfg, ctrVars, startup, unit, units, waiter, deaths>>
    BY Zenon, <1>16 DEF updateHealthCheckLog
  <2> QED
    BY Zenon, <2>3, <2>4, <2>5, <2>6 DEF HealthTypeOK
<1>17. ASSUME NEW c \in Checks, processHealthCheckStatus(c) PROVE HealthTypeOK'
  <2>1. check' \in [Checks -> Runners]
    BY Zenon, <1>0, <1>17, IdleFacts DEF processHealthCheckStatus
  <2> QED
    BY Zenon, <1>17, <2>1 DEF processHealthCheckStatus, HealthTypeOK
<1>18. ASSUME NEW c \in Checks, CheckDies(c) PROVE HealthTypeOK'
  <2>1. check' \in [Checks -> Runners]
    BY Zenon, <1>0, <1>18, IdleFacts DEF CheckDies
  <2>2. deaths' \in Nat
    BY <1>0, <1>18 DEF CheckDies
  <2> QED
    BY Zenon, <1>18, <2>1, <2>2 DEF CheckDies, HealthTypeOK
<1>19. CASE UNCHANGED healthVars
  BY Zenon, <1>19 DEF healthVars, HealthTypeOK
<1> QED
  BY Zenon, <1>1, <1>2, <1>3, <1>4, <1>5, <1>6, <1>7, <1>8, <1>9, <1>10, <1>11, <1>13, <1>14, <1>15, <1>16,
     <1>17, <1>18, <1>19 DEF HealthNext, Check, Counting


---------------------------------------------------------------------------
\* Without a lock that is held there is one unit at most, so one check.
LEMMA OnlyOne ==
    ASSUME HealthTypeOK, TameInv, Unlocked, NEW c \in Checks, check[c].pc # "idle"
    PROVE  /\ st # "exited" /\ unit = [run |-> run, startup |-> Due]
           /\ units = {unit} /\ check[c].unit = unit
           /\ \A d \in Checks \ {c} : check[d].pc = "idle"
<1>1. check[c].unit \in units /\ st # "exited"
  BY Zenon DEF TameInv, CheckOf, Timers
<1>2. unit = [run |-> run, startup |-> Due] /\ units \subseteq {unit}
  BY Zenon, <1>1 DEF TameInv, Timers
<1>3. units = {unit} /\ check[c].unit = unit
  BY Zenon, <1>1, <1>2
<1>4. ASSUME NEW d \in Checks \ {c}, check[d].pc # "idle" PROVE FALSE
  <2>1. check[d].unit \in units
    BY Zenon, <1>4 DEF TameInv, CheckOf
  <2> QED
    BY Zenon, <1>3, <1>4, <2>1 DEF TameInv, Alone
<1> QED
  BY Zenon, <1>1, <1>2, <1>3, <1>4

\* A step of one check that touches nothing else but young, waiter and deaths.
LEMMA OneCheck ==
    ASSUME TameInv, UNCHANGED <<cfg, st, run, startup, unit, units, log, seen>>, NEW c \in Checks,
           \A d \in Checks \ {c} : check'[d] = check[d],
           check[c].pc \notin {"timer", "remove"}, check'[c].pc \notin {"timer", "remove"},
           CheckOf(c)',
           check'[c].pc # "idle" => \A d \in Checks \ {c} :
               check[d].pc # "idle" => check[d].unit # check'[c].unit
    PROVE  TameInv'
<1>1. Unlocked' <=> Unlocked
  BY Zenon DEF Unlocked
<1>2. Old' = Old /\ New' = New /\ Due' = Due
  BY Zenon DEF Old, New, Due
<1>3. Timers'
  <2>1. ASSUME NEW d \in Checks, check'[d].pc \in {"timer", "remove"} PROVE check'[d] = check[d]
    BY Zenon, <2>1
  <2>2. \A d \in Checks :
          /\ check'[d].pc = "timer" => st # "exited" /\ unit = Old /\ units = {Old} /\ startup.Passed
          /\ check'[d].pc = "remove" => /\ st # "exited" /\ unit = New /\ units = {Old, New}
                                        /\ startup.Passed
    BY Zenon, <2>1 DEF TameInv, Timers
  <2> QED
    BY Zenon, <1>1, <1>2, <2>2 DEF TameInv, Timers
<1>4. \A d \in Checks : CheckOf(d)'
  <2>1. ASSUME NEW d \in Checks \ {c} PROVE CheckOf(d)'
    BY Zenon, <2>1 DEF TameInv, CheckOf
  <2> QED
    BY Zenon, <2>1
<1>5. Alone'
  <2> SUFFICES ASSUME NEW d \in Checks, NEW e \in Checks, check'[d].unit = check'[e].unit,
                      check'[d].pc # "idle", check'[e].pc # "idle", d # e
               PROVE  FALSE
    BY Zenon DEF Alone
  <2>1. CASE d # c /\ e # c
    BY Zenon, <2>1 DEF TameInv, Alone
  <2>2. CASE d = c
    BY Zenon, <2>2
  <2>3. CASE e = c
    BY Zenon, <2>3
  <2> QED
    BY Zenon, <2>1, <2>2, <2>3
<1>6. Founded'
  BY Zenon DEF TameInv, Founded
<1> QED
  BY Zenon, <1>3, <1>4, <1>5, <1>6 DEF TameInv

\* A step after which at most one check runs, in the one unit there is.
LEMMA OneLeft ==
    ASSUME HealthTypeOK', NEW c \in Checks, \A d \in Checks \ {c} : check'[d].pc = "idle",
           check'[c].pc \notin {"timer", "remove"}, CheckOf(c)', Founded',
           st' = "exited" => units' = {},
           st' # "exited" => unit' = [run |-> run, startup |-> Due]' /\ units' \subseteq {unit'},
           st' = "running" => units' = {unit'}
    PROVE  TameInv'
<1>1. \A d \in Checks : check'[d].pc \notin {"timer", "remove"}
  BY Zenon
<1>2. Timers'
  BY Zenon, <1>1 DEF Timers
<1>3. \A d \in Checks : CheckOf(d)'
  BY Zenon DEF CheckOf
<1>4. Alone'
  BY Zenon DEF Alone
<1> QED
  BY Zenon, <1>2, <1>3, <1>4 DEF TameInv

\* A run begins when no check of the last one is left.
LEMMA NewRun ==
    ASSUME HealthConfigured, HealthTypeOK, HealthTypeOK', cfg' = cfg, StartRun({}),
           \A c \in Checks : check'[c].pc = "idle"
    PROVE  TameInv'
<1>1. /\ st' = "running" /\ startup'.Passed = FALSE /\ startup'.Successes = 0
      /\ log'.Status = "starting" /\ log'.FailingStreak = 0
      /\ unit' = [run |-> run', startup |-> cfg.startup] /\ units' = {unit'}
      /\ seen'.bad = 0 /\ seen'.passes = 0
  <2>1. {} \subseteq Units
    BY Zenon
  <2>2. units' = {} \cup {unit'}
    BY Zenon, <2>1, StartRunFacts
  <2> QED
    BY Zenon, <2>1, <2>2, StartRunFacts
<1>2. Due' = cfg.startup
  BY Zenon, <1>1, SystemFacts DEF Due
<1>3. Timers'
  BY Zenon, <1>1, <1>2 DEF Timers
<1>4. (\A c \in Checks : CheckOf(c)') /\ Alone'
  BY Zenon DEF CheckOf, Alone
<1>5. Founded'
  BY <1>1 DEF Founded
<1> QED
  BY Zenon, <1>3, <1>4, <1>5 DEF TameInv


---------------------------------------------------------------------------
\* What a step that none of the invariant's variables takes part in leaves.
LEMMA SameTame ==
    ASSUME TameInv, UNCHANGED <<cfg, st, run, startup, unit, units, log, check, seen>>
    PROVE  TameInv'
  BY Zenon DEF TameInv, Timers, CheckOf, Alone, Founded, Unlocked, Old, New, Due

\* A new run begins after the last one was cleaned up.
LEMMA StartTame ==
    ASSUME HealthConfigured, HealthTypeOK, HealthTypeOK', Tame, TameInv, Start
    PROVE  TameInv'
<1>1. st = "exited"
  BY Zenon DEF Start, Tame, May
<1>2. units = {}
  BY Zenon, <1>1 DEF TameInv, Timers
<1>3. \A c \in Checks : check[c].pc = "idle"
  BY Zenon, <1>2 DEF TameInv, CheckOf
<1>4. cfg' = cfg /\ check' = check /\ StartRun(units)
  BY Zenon DEF Start
<1>5. StartRun({})
  BY Zenon, <1>2, <1>4
<1>6. \A c \in Checks : check'[c].pc = "idle"
  BY Zenon, <1>3, <1>4
<1> QED
  BY Zenon, <1>4, <1>5, <1>6, NewRun

\* The container's process ends: there is no startup check that would restart it.
LEMMA ExitTame ==
    ASSUME HealthConfigured, HealthTypeOK, Tame, TameInv, ContainerExits
    PROVE  TameInv'
<1>1. /\ Unlocked /\ st = "running" /\ st' = "dead"
      /\ UNCHANGED <<cfg, run, startup, unit, units, log, check, seen>>
  BY Zenon DEF ContainerExits
<1>2. May("exit") \/ May("stop")
  BY Zenon DEF ContainerExits
<1>3. ~(cfg.startup /\ cfg.StartupRetries # 0)
  BY Zenon, <1>2 DEF Tame, May
<1>4. Timers'
  <2>1. Due' = Due /\ Unlocked'
    BY Zenon, <1>1 DEF Due, Unlocked
  <2>2. \A c \in Checks : check'[c].pc \notin {"timer", "remove"}
    BY Zenon, <2>1 DEF Unlocked
  <2>3. unit = [run |-> run, startup |-> Due] /\ units = {unit}
    BY Zenon, <1>1 DEF TameInv, Timers
  <2> QED
    BY Zenon, <1>1, <2>1, <2>2, <2>3 DEF Timers
<1>5. \A c \in Checks : CheckOf(c)'
  BY Zenon, <1>1, <1>3 DEF TameInv, CheckOf
<1>6. Alone' /\ Founded'
  BY Zenon, <1>1 DEF TameInv, Alone, Founded
<1> QED
  BY Zenon, <1>4, <1>5, <1>6 DEF TameInv

\* Cleanup stops the one unit there may be, and every check with it.
LEMMA CleanupTame ==
    ASSUME HealthConfigured, HealthTypeOK, HealthTypeOK', Tame, TameInv, ContainerCleanup
    PROVE  TameInv'
<1>1. /\ Unlocked /\ st = "dead" /\ check' = removeTransientFiles(unit) /\ cfg' = cfg
  BY Zenon DEF ContainerCleanup
<1>2. unit = [run |-> run, startup |-> Due] /\ units \subseteq {unit}
  BY Zenon, <1>1 DEF TameInv, Timers
<1>3. unit # NoUnit
  <2>1. run \in Nat /\ Due \in BOOLEAN
    BY Zenon, SystemFacts DEF HealthTypeOK, Counters, Due
  <2> QED
    BY Zenon, <1>2, <2>1, UnitFacts
<1>4. \A c \in Checks : check'[c].pc = "idle"
  <2> TAKE c \in Checks
  <2>1. check[c].pc # "idle" => check[c].unit = unit
    BY Zenon, <1>2 DEF TameInv, CheckOf
  <2>2. check'[c] = IF check[c].unit = unit /\ unit # NoUnit THEN NoCheck ELSE check[c]
    BY Zenon, <1>1, StoppedFacts
  <2> QED
    BY Zenon, <1>3, <2>1, <2>2, IdleFacts
<1>5. units \ {unit} = {}
  BY Zenon, <1>2
<1>6. CASE StartRun(units \ {unit})
  <2>1. StartRun({})
    BY Zenon, <1>5, <1>6
  <2> QED
    BY Zenon, <1>1, <1>4, <2>1, NewRun
<1>7. CASE st' = "exited" /\ units' = units \ {unit} /\ UNCHANGED <<run, startup, unit, log, seen>>
  <2>1. Timers'
    BY Zenon, <1>4, <1>5, <1>7 DEF Timers
  <2>2. (\A c \in Checks : CheckOf(c)') /\ Alone'
    BY Zenon, <1>4 DEF CheckOf, Alone
  <2>3. Founded'
    BY Zenon, <1>1, <1>7 DEF TameInv, Founded
  <2> QED
    BY Zenon, <2>1, <2>2, <2>3 DEF TameInv
<1> QED
  BY Zenon, <1>6, <1>7 DEF ContainerCleanup

\* A timer starts a check in a unit that has none.
LEMMA FireTame ==
    ASSUME HealthConfigured, HealthTypeOK, Tame, TameInv, NEW c \in Checks, Fire(c)
    PROVE  TameInv'
<1>1. /\ check \in [Checks -> Runners] /\ units \subseteq Units /\ NoUnit \notin Units
  BY Zenon DEF HealthTypeOK, HealthConfigured
<1>2. ~May("user")
  BY Zenon DEF Tame, May
<1>3. PICK u \in units :
         /\ u # NoUnit => \A d \in Checks : check[d].unit # u
         /\ check' = [check EXCEPT ![c] = [NoCheck EXCEPT !.pc = "begin", !.unit = u]]
  BY Zenon, <1>2 DEF Fire
<1>4. u \in Units /\ u # NoUnit
  BY Zenon, <1>1
<1>5. /\ check'[c] = [NoCheck EXCEPT !.pc = "begin", !.unit = u]
      /\ \A d \in Checks \ {c} : check'[d] = check[d]
  BY Zenon, <1>1, <1>3
<1>6. check'[c].pc = "begin" /\ check'[c].unit = u
  BY Zenon, <1>4, <1>5, IdleFacts
<1>7. /\ UNCHANGED <<cfg, st, run, startup, unit, units, log, seen>> /\ check[c].pc = "idle"
  BY Zenon DEF Fire, ctrVars
<1>8. CheckOf(c)'
  BY Zenon, <1>6, <1>7 DEF CheckOf
<1> QED
  BY Zenon, <1>3, <1>4, <1>5, <1>6, <1>7, <1>8, OneCheck

\* A check of a container that runs goes on.
LEMMA CanBeRunTame ==
    ASSUME HealthConfigured, HealthTypeOK, Tame, TameInv, NEW c \in Checks,
           checkHealthCheckCanBeRun(c)
    PROVE  TameInv'
<1>1. check \in [Checks -> Runners] /\ check[c] \in Runners
  BY Zenon DEF HealthTypeOK
<1>2. /\ UNCHANGED <<cfg, st, run, startup, unit, units, log, seen>>
      /\ check[c].pc = "begin" /\ Unlocked
      /\ check' = [check EXCEPT ![c] = IF st = "running" THEN [check[c] EXCEPT !.pc = "which"]
                                       ELSE NoCheck]
  BY Zenon DEF checkHealthCheckCanBeRun, ctrVars
<1>3. \A d \in Checks \ {c} : check'[d] = check[d]
  BY Zenon, <1>1, <1>2
<1>4. check[c].unit \in units /\ \A d \in Checks \ {c} : check[d].pc = "idle"
  BY Zenon, <1>2, OnlyOne DEF TameInv, CheckOf
<1>5. CASE st = "running"
  <2>1. check'[c] = [check[c] EXCEPT !.pc = "which"]
    BY Zenon, <1>1, <1>2, <1>5
  <2>2. check'[c].pc = "which" /\ check'[c].unit = check[c].unit
    BY <1>1, <2>1, RunnerFacts DEF Steps
  <2>3. CheckOf(c)'
    BY <1>2, <1>4, <1>5, <2>2 DEF CheckOf
  <2> QED
    BY Zenon, <1>2, <1>3, <1>4, <2>2, <2>3, OneCheck
<1>6. CASE st # "running"
  <2>1. check'[c].pc = "idle"
    BY Zenon, <1>1, <1>2, <1>6, IdleFacts
  <2>2. CheckOf(c)'
    BY Zenon, <2>1 DEF CheckOf
  <2> QED
    BY Zenon, <1>2, <1>3, <2>1, <2>2, OneCheck
<1> QED
  BY Zenon, <1>5, <1>6

\* The kind of check that is due is the kind of the one unit there is.
LEMMA HealthCheckTame ==
    ASSUME HealthConfigured, HealthTypeOK, Tame, TameInv, NEW c \in Checks, HealthCheck(c)
    PROVE  TameInv'
<1>1. /\ check \in [Checks -> Runners] /\ check[c] \in Runners /\ run \in Nat
      /\ young \in BOOLEAN /\ Due \in BOOLEAN
  BY Zenon, SystemFacts DEF HealthTypeOK, Counters, Due
<1>2. /\ UNCHANGED <<cfg, st, run, startup, unit, units, log, seen>>
      /\ check[c].pc = "which" /\ Unlocked
      /\ check' = [check EXCEPT ![c] = [check[c] EXCEPT !.pc = "exec", !.startup = Due, !.run = run,
                                                        !.young = young]]
  BY Zenon DEF HealthCheck, ctrVars, Due
<1>3. /\ check'[c] = [check[c] EXCEPT !.pc = "exec", !.startup = Due, !.run = run, !.young = young]
      /\ \A d \in Checks \ {c} : check'[d] = check[d]
  BY Zenon, <1>1, <1>2
<1>4. /\ check'[c].pc = "exec" /\ check'[c].unit = check[c].unit
      /\ check'[c].startup = Due /\ check'[c].run = run
  BY Zenon, <1>1, <1>3 DEF Runners
<1>5. /\ check[c].unit = unit /\ units = {unit} /\ unit = [run |-> run, startup |-> Due]
      /\ \A d \in Checks \ {c} : check[d].pc = "idle"
  BY Zenon, <1>2, OnlyOne
<1>6. unit.startup = Due
  BY <1>1, <1>5, UnitFacts
<1>7. cfg.startup /\ cfg.StartupRetries # 0 => st = "running"
  BY Zenon, <1>2 DEF TameInv, CheckOf
<1>8. CheckOf(c)'
  BY <1>2, <1>4, <1>5, <1>6, <1>7 DEF CheckOf
<1> QED
  BY Zenon, <1>2, <1>3, <1>4, <1>5, <1>8, OneCheck

\* The command ends, with or without the lock.
LEMMA ExecEndsTame ==
    ASSUME HealthConfigured, HealthTypeOK, Tame, TameInv, NEW c \in Checks, ExecEnds(c)
    PROVE  TameInv'
<1>1. check \in [Checks -> Runners] /\ check[c] \in Runners
  BY Zenon DEF HealthTypeOK
<1>2. PICK ok \in BOOLEAN :
          check' = [check EXCEPT ![c] = [check[c] EXCEPT !.ok = ok,
                                            !.pc = IF check[c].startup THEN "count" ELSE "log"]]
  BY Zenon DEF ExecEnds
<1>3. UNCHANGED <<cfg, st, run, startup, unit, units, log, seen>> /\ check[c].pc = "exec"
  BY Zenon DEF ExecEnds, ctrVars
<1>4. /\ check'[c] = [check[c] EXCEPT !.ok = ok, !.pc = IF check[c].startup THEN "count" ELSE "log"]
      /\ \A d \in Checks \ {c} : check'[d] = check[d]
  BY Zenon, <1>1, <1>2
<1>5. /\ check'[c].pc = IF check[c].startup THEN "count" ELSE "log"
      /\ check'[c].unit = check[c].unit /\ check'[c].startup = check[c].startup
      /\ check'[c].run = check[c].run
  BY Zenon, <1>1, <1>4 DEF Runners
<1>6. /\ check[c].unit \in units /\ check[c].run = run /\ check[c].startup = check[c].unit.startup
      /\ cfg.startup /\ cfg.StartupRetries # 0 => st = "running"
  BY Zenon, <1>3 DEF TameInv, CheckOf
<1>7. CheckOf(c)'
  BY Zenon, <1>3, <1>5, <1>6 DEF CheckOf
<1>8. \A d \in Checks \ {c} : check[d].pc # "idle" => check[d].unit # check'[c].unit
  BY Zenon, <1>3, <1>5 DEF TameInv, Alone
<1> QED
  BY Zenon, <1>3, <1>4, <1>5, <1>7, <1>8, OneCheck


---------------------------------------------------------------------------
\* What is known of a check that holds the lock for the first time after its command.
LEMMA AtCount ==
    ASSUME HealthConfigured, HealthTypeOK, TameInv, Unlocked, NEW c \in Checks,
           check[c].pc = "count"
    PROVE  /\ cfg.startup = TRUE /\ startup.Passed = FALSE /\ Due = TRUE
           /\ check[c].run = run /\ check[c].startup = TRUE
           /\ unit = Old /\ unit.startup = TRUE
<1>1. run \in Nat /\ Due \in BOOLEAN /\ startup.Passed \in BOOLEAN /\ cfg.startup \in BOOLEAN
  BY Zenon, SystemFacts DEF HealthTypeOK, Counters, Due
<1>2. check[c].unit = unit /\ unit = [run |-> run, startup |-> Due]
  BY Zenon, OnlyOne
<1>3. unit.startup = Due
  BY <1>1, <1>2, UnitFacts
<1>4. check[c] \in Runners
  BY Zenon DEF HealthTypeOK
<1>5. check[c].startup \in BOOLEAN
  BY Zenon, <1>4, RunnerFacts
<1>6. check[c].run = run /\ check[c].startup = check[c].unit.startup /\ check[c].startup
  BY Zenon DEF TameInv, CheckOf
<1>7. Due = TRUE
  BY Zenon, <1>1, <1>2, <1>3, <1>6
<1> QED
  BY Zenon, <1>1, <1>2, <1>3, <1>5, <1>6, <1>7 DEF Due, Old

\* A success of the startup check is counted: with enough of them the check changes
\* the timers.
LEMMA SuccessTame ==
    ASSUME HealthConfigured, HealthTypeOK, HealthTypeOK', Tame, TameInv, NEW c \in Checks,
           incrementStartupHCSuccessCounter(c)
    PROVE  TameInv'
<1> DEFINE n == startup.Successes + 1
<1>1. /\ startup.Successes \in Nat /\ cfg.Successes \in Nat /\ seen.passes \in Nat
      /\ startup \in Counters /\ seen \in Histories
  BY Zenon, SystemFacts DEF HealthTypeOK, Counters, Histories
<1>2. /\ check[c].pc = "count" /\ Unlocked
      /\ UNCHANGED <<cfg, st, run, unit, units, log>>
  BY Zenon DEF incrementStartupHCSuccessCounter, ctrVars
<1>3. /\ cfg.startup = TRUE /\ startup.Passed = FALSE /\ Due = TRUE /\ check[c].run = run
      /\ check[c].startup = TRUE /\ unit = Old /\ unit.startup = TRUE
  BY Zenon, <1>2, AtCount
<1>4. /\ st # "exited" /\ units = {unit} /\ check[c].unit = unit
      /\ unit = [run |-> run, startup |-> Due]
      /\ \A d \in Checks \ {c} : check[d].pc = "idle"
  BY Zenon, <1>2, OnlyOne
<1>5. seen' = [seen EXCEPT !.passes = Saturate(seen.passes + 1, cfg.Successes)]
  BY Zenon, <1>3 DEF incrementStartupHCSuccessCounter
<1>6. /\ seen'.passes = Saturate(seen.passes + 1, cfg.Successes) /\ seen'.bad = seen.bad
      /\ seen'.good = seen.good
  BY Zenon, <1>1, <1>5 DEF Histories
<1>7. seen.passes >= cfg.Successes \/ seen.passes >= startup.Successes
  BY Zenon DEF TameInv, Founded
<1>8. seen'.passes >= cfg.Successes \/ seen'.passes >= n
  BY <1>1, <1>6, <1>7 DEF Saturate
<1>9. CASE n >= cfg.Successes
  <2>1. startup' = [Passed |-> TRUE, Successes |-> 0, Failures |-> 0] /\ Goto(c, "timer")
    BY Zenon, <1>3, <1>9 DEF incrementStartupHCSuccessCounter
  <2>2. /\ \A d \in Checks \ {c} : check'[d] = check[d]
        /\ check'[c].pc = "timer" /\ check'[c].unit = check[c].unit
        /\ check'[c].startup = check[c].startup /\ check'[c].run = check[c].run
    BY Zenon, <2>1, GotoFacts DEF Steps
  <2>3. ~Unlocked' /\ \A d \in Checks \ {c} : check'[d].pc = "idle"
    BY Zenon, <1>4, <2>2 DEF Unlocked
  <2>4. startup'.Passed
    BY Zenon, <2>1
  <2>5. Timers'
    <3>1. Old' = Old
      BY Zenon, <1>2 DEF Old
    <3> QED
      BY Zenon, <1>2, <1>3, <1>4, <2>2, <2>3, <2>4, <3>1 DEF Timers
  <2>6. \A d \in Checks : CheckOf(d)'
    <3>1. CheckOf(c)'
      BY Zenon, <1>2, <1>3, <1>4, <2>2 DEF CheckOf
    <3> QED
      BY Zenon, <2>3, <3>1 DEF CheckOf
  <2>7. Alone'
    BY Zenon, <2>3 DEF Alone
  <2>8. Founded'
    <3>1. n \in Nat /\ seen'.passes \in Nat
      BY <1>1, <1>6 DEF Saturate
    <3>2. seen'.passes >= cfg.Successes
      BY <1>1, <1>8, <1>9, <3>1
    <3> QED
      BY Zenon, <1>2, <1>6, <3>2 DEF TameInv, Founded
  <2> QED
    BY Zenon, <2>5, <2>6, <2>7, <2>8 DEF TameInv
<1>10. CASE ~(n >= cfg.Successes)
  <2>1. startup' = [startup EXCEPT !.Successes = n] /\ Goto(c, "log")
    BY Zenon, <1>3, <1>10 DEF incrementStartupHCSuccessCounter
  <2>2. /\ \A d \in Checks \ {c} : check'[d] = check[d]
        /\ check'[c].pc = "log" /\ check'[c].unit = check[c].unit
        /\ check'[c].startup = check[c].startup /\ check'[c].run = check[c].run
    BY Zenon, <2>1, GotoFacts DEF Steps
  <2>3. startup'.Passed = FALSE /\ startup'.Successes = n
    BY Zenon, <1>1, <1>3, <2>1 DEF Counters
  <2>4. [run |-> run, startup |-> Due]' = [run |-> run, startup |-> Due]
    BY Zenon, <1>2, <1>3, <2>3 DEF Due
  <2>5. CheckOf(c)'
    BY Zenon, <1>2, <1>3, <1>4, <2>2 DEF CheckOf
  <2>6. Founded'
    BY Zenon, <1>2, <1>6, <1>8, <2>3 DEF TameInv, Founded
  <2>7. /\ st' # "exited" /\ unit' = [run |-> run, startup |-> Due]' /\ units' = {unit'}
    BY Zenon, <1>2, <1>4, <2>4
  <2>8. \A d \in Checks \ {c} : check'[d].pc = "idle"
    BY Zenon, <1>4, <2>2
  <2> QED
    BY Zenon, <2>2, <2>5, <2>6, <2>7, <2>8, OneLeft
<1> QED
  BY Zenon, <1>9, <1>10

\* A failure of the startup check is counted; with enough of them the container
\* is stopped.  It runs: nobody else stops it.
LEMMA FailureTame ==
    ASSUME HealthConfigured, HealthTypeOK, HealthTypeOK', Tame, TameInv, NEW c \in Checks,
           incrementStartupHCFailureCounter(c)
    PROVE  TameInv'
<1> DEFINE n == Saturate(startup.Failures + 1, cfg.StartupRetries)
           restart == ~startup.Passed /\ cfg.StartupRetries # 0 /\ n >= cfg.StartupRetries
<1>1. startup \in Counters /\ seen \in Histories
  BY Zenon DEF HealthTypeOK
<1>2. check[c].pc = "count" /\ Unlocked /\ cfg' = cfg
  BY Zenon DEF incrementStartupHCFailureCounter
<1>3. /\ cfg.startup = TRUE /\ startup.Passed = FALSE /\ Due = TRUE /\ check[c].run = run
      /\ check[c].startup = TRUE /\ unit = Old /\ unit.startup = TRUE
  BY Zenon, <1>2, AtCount
<1>4. /\ st # "exited" /\ units = {unit} /\ check[c].unit = unit
      /\ unit = [run |-> run, startup |-> Due]
      /\ \A d \in Checks \ {c} : check[d].pc = "idle"
  BY Zenon, <1>2, OnlyOne
<1>5. cfg.StartupRetries # 0 => st = "running"
  BY Zenon, <1>2, <1>3 DEF TameInv, CheckOf
<1>6. ASSUME NEW pc \in {"log", "restart"}, Goto(c, pc), pc = "restart" => st' = "dead",
             st' \in {st, "dead"},
             startup' = [startup EXCEPT !.Failures = n], UNCHANGED <<run, unit, units, log>>,
             \/ seen' = seen
             \/ seen' = [seen EXCEPT !.restart = TRUE]
      PROVE  TameInv'
  <2>1. /\ \A d \in Checks \ {c} : check'[d] = check[d]
        /\ check'[c].pc = pc /\ check'[c].unit = check[c].unit
        /\ check'[c].startup = check[c].startup /\ check'[c].run = check[c].run
    BY Zenon, <1>6, GotoFacts DEF Steps
  <2>2. startup'.Passed = startup.Passed /\ startup'.Successes = startup.Successes
    BY Zenon, <1>1, <1>6 DEF Counters
  <2>3. seen'.bad = seen.bad /\ seen'.good = seen.good /\ seen'.passes = seen.passes
    BY Zenon, <1>1, <1>6 DEF Histories
  <2>4. [run |-> run, startup |-> Due]' = [run |-> run, startup |-> Due]
    BY Zenon, <1>2, <1>6, <2>2 DEF Due
  <2>5. CheckOf(c)'
    BY Zenon, <1>2, <1>3, <1>4, <1>6, <2>1 DEF CheckOf
  <2>6. Founded'
    BY Zenon, <1>2, <1>6, <2>2, <2>3 DEF TameInv, Founded
  <2>7. st' # "exited" /\ unit' = [run |-> run, startup |-> Due]' /\ units' = {unit'}
    BY Zenon, <1>4, <1>6, <2>4
  <2>8. \A d \in Checks \ {c} : check'[d].pc = "idle"
    BY Zenon, <1>4, <2>1
  <2> QED
    BY Zenon, <1>6, <2>1, <2>5, <2>6, <2>7, <2>8, OneLeft
<1> HIDE DEF n
<1>7. \/ /\ startup' = [startup EXCEPT !.Failures = n] /\ Goto(c, "log")
         /\ UNCHANGED <<st, run, unit, units, log, seen>>
      \/ /\ startup' = [startup EXCEPT !.Failures = n] /\ Goto(c, "restart") /\ st' = "dead"
         /\ seen' = [seen EXCEPT !.restart = TRUE]
         /\ UNCHANGED <<run, unit, units, log>>
  <2>1. \/ /\ startup' = IF startup.Passed THEN startup ELSE [startup EXCEPT !.Failures = n]
           /\ Goto(c, "log")
           /\ UNCHANGED <<st, run, unit, units, log, seen>>
        \/ /\ startup' = [startup EXCEPT !.Failures = n] /\ Goto(c, "restart") /\ st' = "dead"
           /\ seen' = [seen EXCEPT !.restart = TRUE]
           /\ UNCHANGED <<run, unit, units, log>>
        \/ restart /\ st # "running"
    BY Zenon DEF incrementStartupHCFailureCounter, n
  <2> QED
    BY Zenon, <1>3, <1>5, <2>1
<1> QED
  BY Zenon, <1>6, <1>7

\* The timer of the regular check joins that of the startup check, whose check has
\* the lock.
LEMMA CreateTame ==
    ASSUME HealthConfigured, HealthTypeOK, HealthTypeOK', Tame, TameInv, NEW c \in Checks,
           createTimer(c)
    PROVE  TameInv'
<1>1. /\ check[c].pc = "timer" /\ unit' = New /\ units' = units \cup {unit'} /\ Goto(c, "remove")
      /\ UNCHANGED <<cfg, st, run, startup, log, seen>>
  BY Zenon DEF createTimer, ctrVars, New
<1>2. st # "exited" /\ units = {Old} /\ startup.Passed
  BY Zenon, <1>1 DEF TameInv, Timers
<1>3. /\ check[c].unit \in units /\ check[c].run = run /\ check[c].startup = check[c].unit.startup
      /\ check[c].startup
  BY Zenon, <1>1 DEF TameInv, CheckOf
<1>4. \A d \in Checks \ {c} : check[d].pc = "idle"
  <2> SUFFICES ASSUME NEW d \in Checks \ {c}, check[d].pc # "idle" PROVE FALSE
    BY Zenon
  <2>1. check[d].unit = check[c].unit
    BY Zenon, <1>2, <1>3 DEF TameInv, CheckOf
  <2> QED
    BY Zenon, <1>1, <2>1 DEF TameInv, Alone
<1>5. /\ \A d \in Checks \ {c} : check'[d] = check[d]
      /\ check'[c].pc = "remove" /\ check'[c].unit = check[c].unit
      /\ check'[c].startup = check[c].startup /\ check'[c].run = check[c].run
  BY Zenon, <1>1, GotoFacts DEF Steps
<1>6. ~Unlocked' /\ \A d \in Checks \ {c} : check'[d].pc = "idle"
  BY Zenon, <1>4, <1>5 DEF Unlocked
<1>7. Timers'
  <2>1. Old' = Old /\ New' = New
    BY Zenon, <1>1 DEF Old, New
  <2>2. units' = {Old, New}
    BY Zenon, <1>1, <1>2
  <2> QED
    BY Zenon, <1>1, <1>2, <1>5, <1>6, <2>1, <2>2 DEF Timers
<1>8. \A d \in Checks : CheckOf(d)'
  <2>1. CheckOf(c)'
    BY Zenon, <1>1, <1>3, <1>5 DEF CheckOf
  <2> QED
    BY Zenon, <1>6, <2>1 DEF CheckOf
<1>9. Alone' /\ Founded'
  BY Zenon, <1>1, <1>6 DEF Alone, TameInv, Founded
<1> QED
  BY Zenon, <1>7, <1>8, <1>9 DEF TameInv

\* The unit of the startup check goes, and with it the check that removes it: a check
\* of the new unit stays.
LEMMA RemoveTame ==
    ASSUME HealthConfigured, HealthTypeOK, HealthTypeOK', Tame, TameInv, NEW c \in Checks,
           RemoveOldUnit(c)
    PROVE  TameInv'
<1>1. /\ check[c].pc = "remove" /\ units' = units \ {Old}
      /\ check' = IF removeTransientFiles(Old)[c] = NoCheck THEN removeTransientFiles(Old)
                  ELSE [removeTransientFiles(Old) EXCEPT ![c].pc = "log"]
      /\ UNCHANGED <<cfg, st, run, startup, unit, log, seen>>
  BY Zenon DEF RemoveOldUnit, ctrVars, Old
<1>2. st # "exited" /\ unit = New /\ units = {Old, New} /\ startup.Passed
  BY Zenon, <1>1 DEF TameInv, Timers
<1>3. /\ Old.startup = TRUE /\ New.startup = FALSE /\ Old # NoUnit /\ Old # New
  <2>1. run \in Nat
    BY Zenon DEF HealthTypeOK
  <2> QED
    BY Zenon, <2>1, UnitFacts DEF Old, New
<1>4. check[c].unit = Old
  BY Zenon, <1>1, <1>2, <1>3 DEF TameInv, CheckOf
<1>5. /\ check' = removeTransientFiles(Old)
      /\ \A d \in Checks : check'[d] = IF check[d].unit = Old THEN NoCheck ELSE check[d]
  <2>1. \A d \in Checks : 
            removeTransientFiles(Old)[d] = IF check[d].unit = Old /\ Old # NoUnit THEN NoCheck
                                           ELSE check[d]
    BY Zenon, StoppedFacts
  <2> QED
    BY Zenon, <1>1, <1>3, <1>4, <2>1
<1>6. units' = {New}
  BY Zenon, <1>1, <1>2, <1>3
<1>7. ASSUME NEW d \in Checks, check'[d].pc # "idle"
      PROVE  check'[d] = check[d] /\ check[d].unit = New /\ check[d].pc \notin {"timer", "remove"}
  <2>1. check'[d] = check[d] /\ check[d].unit # Old
    BY Zenon, <1>5, <1>7, IdleFacts
  <2>2. check[d].unit = New
    BY Zenon, <1>2, <1>7, <2>1 DEF TameInv, CheckOf
  <2>3. check[d].pc \notin {"timer", "remove"}
    BY Zenon, <1>3, <2>2 DEF TameInv, CheckOf
  <2> QED
    BY Zenon, <2>1, <2>2, <2>3
<1>8. Timers'
  <2>1. [run |-> run, startup |-> Due]' = New
    BY Zenon, <1>1, <1>2 DEF New, Due
  <2>2. \A d \in Checks : check'[d].pc \notin {"timer", "remove"}
    BY Zenon, <1>7
  <2> QED
    BY Zenon, <1>1, <1>2, <1>6, <2>1, <2>2 DEF Timers
<1>9. \A d \in Checks : CheckOf(d)'
  <2> SUFFICES ASSUME NEW d \in Checks, check'[d].pc # "idle" PROVE CheckOf(d)'
    BY Zenon DEF CheckOf
  <2>1. CheckOf(d)
    BY Zenon DEF TameInv
  <2>2. check'[d] = check[d] /\ check[d].unit \in units'
    BY Zenon, <1>6, <1>7
  <2> QED
    BY Zenon, <1>1, <2>1, <2>2 DEF CheckOf
<1>10. Alone'
  <2> SUFFICES ASSUME NEW d \in Checks, NEW e \in Checks, check'[d].unit = check'[e].unit,
                      check'[d].pc # "idle", check'[e].pc # "idle"
               PROVE  d = e
    BY Zenon DEF Alone
  <2>1. check'[d] = check[d] /\ check'[e] = check[e]
    BY Zenon, <1>7
  <2> QED
    BY Zenon, <2>1 DEF TameInv, Alone
<1>11. Founded'
  BY Zenon, <1>1 DEF TameInv, Founded
<1> QED
  BY Zenon, <1>8, <1>9, <1>10, <1>11 DEF TameInv


\* The container was stopped and its unit goes, and with it the check that stops it:
\* nobody is left to start the container.
LEMMA RestartTame ==
    ASSUME HealthConfigured, HealthTypeOK, HealthTypeOK', Tame, TameInv, NEW c \in Checks,
           restartWithTimeout(c)
    PROVE  TameInv'
<1>1. check[c].pc = "restart" /\ Unlocked /\ cfg' = cfg
  BY Zenon DEF restartWithTimeout
<1>2. /\ units = {unit} /\ check[c].unit = unit /\ unit = [run |-> run, startup |-> Due]
      /\ \A d \in Checks \ {c} : check[d].pc = "idle"
  BY Zenon, <1>1, OnlyOne
<1>3. st = "dead"
  BY Zenon, <1>1 DEF TameInv, CheckOf
<1>4. unit # NoUnit
  <2>1. run \in Nat /\ Due \in BOOLEAN
    BY Zenon, SystemFacts DEF HealthTypeOK, Counters, Due
  <2> QED
    BY Zenon, <1>2, <2>1, UnitFacts
<1>5. /\ removeTransientFiles(unit)[c] = NoCheck
      /\ \A d \in Checks : removeTransientFiles(unit)[d].pc = "idle"
  <2>1. \A d \in Checks : removeTransientFiles(unit)[d] =
                             IF check[d].unit = unit /\ unit # NoUnit THEN NoCheck ELSE check[d]
    BY Zenon, StoppedFacts
  <2>2. removeTransientFiles(unit)[c] = NoCheck
    BY Zenon, <1>2, <1>4, <2>1
  <2>3. \A d \in Checks \ {c} : removeTransientFiles(unit)[d] \in {NoCheck, check[d]}
    BY Zenon, <2>1
  <2>4. \A d \in Checks \ {c} : removeTransientFiles(unit)[d].pc = "idle"
    BY Zenon, <1>2, <2>3, IdleFacts
  <2> QED
    BY Zenon, <2>2, <2>4, IdleFacts
<1>6. /\ check' = removeTransientFiles(unit) /\ units' = units \ {unit}
      /\ UNCHANGED <<st, run, startup, unit, log, seen>>
  BY Zenon, <1>5 DEF restartWithTimeout, ctrVars
<1>7. units' = {} /\ \A d \in Checks : check'[d].pc = "idle"
  BY Zenon, <1>2, <1>5, <1>6
<1>8. Timers'
  <2>1. [run |-> run, startup |-> Due]' = [run |-> run, startup |-> Due]
    BY Zenon, <1>1, <1>6 DEF Due
  <2>2. unit' = [run |-> run, startup |-> Due]' /\ st' = "dead"
    BY Zenon, <1>2, <1>3, <1>6, <2>1
  <2> QED
    BY Zenon, <1>7, <2>2 DEF Timers
<1>9. (\A d \in Checks : CheckOf(d)') /\ Alone'
  BY Zenon, <1>7 DEF CheckOf, Alone
<1>10. Founded'
  BY Zenon, <1>1, <1>6 DEF TameInv, Founded
<1> QED
  BY Zenon, <1>8, <1>9, <1>10 DEF TameInv

\* The result of a check is that of this run, and is counted the same way in the log
\* and in the history.
LEMMA LogTame ==
    ASSUME HealthConfigured, HealthTypeOK, HealthTypeOK', Tame, TameInv, NEW c \in Checks,
           updateHealthCheckLog(c)
    PROVE  TameInv'
<1> DEFINE k == check[c]
           silent == cfg.kube /\ k.young /\ ~k.startup
<1>1. /\ check \in [Checks -> Runners] /\ k \in Runners /\ seen \in Histories
      /\ log \in Logs
  BY Zenon DEF HealthTypeOK
<1>2. /\ k.pc = "log" /\ Unlocked /\ UNCHANGED <<cfg, st, run, startup, unit, units>>
  BY Zenon DEF updateHealthCheckLog, ctrVars
<1>3. /\ st # "exited" /\ units = {unit} /\ k.unit = unit /\ unit = [run |-> run, startup |-> Due]
      /\ \A d \in Checks \ {c} : check[d].pc = "idle"
  BY Zenon, <1>2, OnlyOne
<1>4. k.run = run /\ k.startup = k.unit.startup
  BY Zenon, <1>2 DEF TameInv, CheckOf
<1>5. /\ k.ok \in BOOLEAN /\ k.startup \in BOOLEAN /\ k.young \in BOOLEAN
      /\ [k EXCEPT !.pc = "act"].pc = "act" /\ [k EXCEPT !.pc = "act"].unit = k.unit
      /\ [k EXCEPT !.pc = "act"].startup = k.startup /\ [k EXCEPT !.pc = "act"].run = k.run
  <2> HIDE DEF k
  <2>1. "act" \in Steps
    BY Zenon DEF Steps
  <2> QED
    BY Zenon, <1>1, <2>1, RunnerFacts
<1>6. /\ log' = IF silent THEN log
                ELSE IF k.ok THEN [Status |-> "healthy", FailingStreak |-> 0]
                ELSE Failed(k.startup \/ k.young)
      /\ seen' = IF silent THEN seen
                 ELSE IF k.ok THEN [seen EXCEPT !.bad = 0, !.good = TRUE]
                 ELSE IF k.startup \/ k.young THEN seen
                 ELSE [seen EXCEPT !.bad = Saturate(seen.bad + 1, cfg.Retries)]
      /\ \/ check' = [check EXCEPT ![c] = NoCheck]
         \/ /\ check' = [check EXCEPT ![c] = [k EXCEPT !.pc = "act"]]
            /\ log'.Status = "unhealthy"
  BY Zenon, <1>4 DEF updateHealthCheckLog
<1>7. \A d \in Checks \ {c} : check'[d] = check[d]
  BY Zenon, <1>1, <1>6
<1>8. \/ check'[c].pc = "idle"
      \/ /\ check'[c].pc = "act" /\ check'[c].unit = k.unit /\ check'[c].startup = k.startup
         /\ check'[c].run = k.run /\ log'.Status = "unhealthy"
  <2>1. \/ check'[c] = NoCheck
        \/ check'[c] = [k EXCEPT !.pc = "act"] /\ log'.Status = "unhealthy"
    BY Zenon, <1>1, <1>6
  <2> QED
    BY Zenon, <1>5, <2>1, IdleFacts
<1>9. CheckOf(c)'
  BY Zenon, <1>2, <1>3, <1>4, <1>8 DEF CheckOf
<1>10. Founded'
  <2>0. Founded
    BY Zenon DEF TameInv
  <2>1. CASE silent \/ (~k.ok /\ (k.startup \/ k.young))
    <3>1. log' = log /\ seen' = seen
      <4>1. CASE silent
        BY Zenon, <1>6, <4>1
      <4>2. CASE ~silent
        <5>1. (k.startup \/ k.young) \in BOOLEAN /\ (k.startup \/ k.young)
          BY Zenon, <2>1, <4>2
        <5>2. Failed(k.startup \/ k.young) = log
          BY Zenon, <5>1 DEF Failed
        <5> QED
          BY Zenon, <1>6, <2>1, <4>2, <5>2
      <4> QED
        BY Zenon, <4>1, <4>2
    <3> QED
      BY Zenon, <1>2, <2>0, <3>1 DEF Founded
  <2>2. CASE ~silent /\ k.ok
    <3>1. log' = [Status |-> "healthy", FailingStreak |-> 0]
          /\ seen' = [seen EXCEPT !.bad = 0, !.good = TRUE]
      BY Zenon, <1>6, <2>2
    <3>2. seen'.bad = 0 /\ seen'.good = TRUE /\ seen'.passes = seen.passes
      BY Zenon, <1>1, <3>1 DEF Histories
    <3>3. log'.Status = "healthy" /\ log'.FailingStreak = 0
      BY Zenon, <3>1
    <3> QED
      BY Zenon, <1>2, <2>0, <3>2, <3>3 DEF Founded
  <2>3. CASE ~silent /\ ~k.ok /\ ~(k.startup \/ k.young)
    <3>1. log' = Failed(k.startup \/ k.young)
          /\ seen' = [seen EXCEPT !.bad = Saturate(seen.bad + 1, cfg.Retries)]
      BY Zenon, <1>6, <2>3
    <3>2. (k.startup \/ k.young) = FALSE
      BY Zenon, <1>5, <2>3
    <3>3. log' = Failed(FALSE)
      BY Zenon, <3>1, <3>2
    <3>4. /\ log'.FailingStreak = Saturate(log.FailingStreak + 1, cfg.Retries)
          /\ log'.Status = IF log'.FailingStreak >= cfg.Retries THEN "unhealthy" ELSE log.Status
      BY Zenon, <3>3, FailedFacts
    <3>5. /\ seen'.bad = Saturate(seen.bad + 1, cfg.Retries) /\ seen'.good = seen.good
          /\ seen'.passes = seen.passes
      BY Zenon, <1>1, <3>1 DEF Histories
    <3>6. log'.FailingStreak = seen'.bad
      BY Zenon, <2>0, <3>4, <3>5 DEF Founded
    <3>7. log'.Status = "unhealthy" => seen'.bad >= cfg.Retries
      <4>1. seen.bad \in Nat /\ cfg.Retries \in Nat
        BY Zenon, <1>1, SystemFacts DEF Histories
      <4>2. seen.bad >= cfg.Retries => Saturate(seen.bad + 1, cfg.Retries) >= cfg.Retries
        BY <4>1 DEF Saturate
      <4> QED
        BY Zenon, <2>0, <3>4, <3>5, <3>6, <4>2 DEF Founded
    <3>8. log'.Status = "healthy" => seen'.good
      BY Zenon, <2>0, <3>4, <3>5 DEF Founded
    <3> QED
      BY Zenon, <1>2, <2>0, <3>5, <3>6, <3>7, <3>8 DEF Founded
  <2> QED
    BY Zenon, <2>1, <2>2, <2>3
<1>11. [run |-> run, startup |-> Due]' = [run |-> run, startup |-> Due]
  BY Zenon, <1>2 DEF Due
<1>12. st' # "exited" /\ unit' = [run |-> run, startup |-> Due]' /\ units' = {unit'}
  BY Zenon, <1>2, <1>3, <1>11
<1>13. /\ \A d \in Checks \ {c} : check'[d].pc = "idle"
       /\ check'[c].pc \notin {"timer", "remove"}
  BY Zenon, <1>3, <1>7, <1>8
<1> QED
  BY Zenon, <1>9, <1>10, <1>12, <1>13, OneLeft

\* The on-failure action stops the container and ends the check.
LEMMA ActTame ==
    ASSUME HealthConfigured, HealthTypeOK, HealthTypeOK', Tame, TameInv, NEW c \in Checks,
           processHealthCheckStatus(c)
    PROVE  TameInv'
<1>1. /\ check[c].pc = "act" /\ Unlocked /\ check' = [check EXCEPT ![c] = NoCheck]
      /\ st' \in {st, "dead"} /\ UNCHANGED <<cfg, run, startup, unit, units, log, seen>>
  BY Zenon DEF processHealthCheckStatus
<1>2. /\ st # "exited" /\ units = {unit} /\ unit = [run |-> run, startup |-> Due]
      /\ \A d \in Checks \ {c} : check[d].pc = "idle"
  BY Zenon, <1>1, OnlyOne
<1>3. \A d \in Checks : check'[d].pc = "idle"
  <2>1. check \in [Checks -> Runners]
    BY Zenon DEF HealthTypeOK
  <2> QED
    BY Zenon, <1>1, <1>2, <2>1, IdleFacts
<1>4. [run |-> run, startup |-> Due]' = [run |-> run, startup |-> Due]
  BY Zenon, <1>1 DEF Due
<1>5. st' # "exited" /\ unit' = [run |-> run, startup |-> Due]' /\ units' = {unit'}
  BY Zenon, <1>1, <1>2, <1>4
<1>6. Founded'
  BY Zenon, <1>1 DEF TameInv, Founded
<1>7. CheckOf(c)'
  BY Zenon, <1>3 DEF CheckOf
<1> QED
  BY Zenon, <1>3, <1>5, <1>6, <1>7, OneLeft

---------------------------------------------------------------------------
\* Every step keeps the invariant: one line per action.
LEMMA TameStep ==
    ASSUME HealthConfigured, HealthTypeOK, HealthTypeOK', Tame, TameInv, [HealthNext]_healthVars
    PROVE  TameInv'
<1>1. CASE Start
  BY Zenon, <1>1, StartTame
<1>2. CASE ContainerExits
  BY Zenon, <1>2, ExitTame
<1>3. CASE ContainerCleanup
  BY Zenon, <1>3, CleanupTame
<1>4. CASE StartPeriodEnds \/ waitForHealthy \/ UNCHANGED healthVars
  <2>1. UNCHANGED <<cfg, st, run, startup, unit, units, log, check, seen>>
    BY Zenon, <1>4 DEF StartPeriodEnds, waitForHealthy, PollState, PollStatus, healthVars, ctrVars
  <2> QED
    BY Zenon, <2>1, SameTame
<1>5. ASSUME NEW c \in Checks, Fire(c) \/ Check(c) \/ CheckDies(c) PROVE TameInv'
  <2>1. CASE Fire(c)
    BY Zenon, <2>1, FireTame
  <2>2. CASE checkHealthCheckCanBeRun(c)
    BY Zenon, <2>2, CanBeRunTame
  <2>3. CASE HealthCheck(c)
    BY Zenon, <2>3, HealthCheckTame
  <2>4. CASE ExecEnds(c)
    BY Zenon, <2>4, ExecEndsTame
  <2>5. CASE incrementStartupHCSuccessCounter(c)
    BY Zenon, <2>5, SuccessTame
  <2>6. CASE incrementStartupHCFailureCounter(c)
    BY Zenon, <2>6, FailureTame
  <2>7. CASE createTimer(c)
    BY Zenon, <2>7, CreateTame
  <2>8. CASE RemoveOldUnit(c)
    BY Zenon, <2>8, RemoveTame
  <2>9. CASE restartWithTimeout(c)
    BY Zenon, <2>9, RestartTame
  <2>10. CASE updateHealthCheckLog(c)
    BY Zenon, <2>10, LogTame
  <2>11. CASE processHealthCheckStatus(c)
    BY Zenon, <2>11, ActTame
  <2>12. CASE CheckDies(c)
    BY Zenon, <2>12 DEF CheckDies, Tame, May
  <2> QED
    BY Zenon, <1>5, <2>1, <2>2, <2>3, <2>4, <2>5, <2>6, <2>7, <2>8, <2>9, <2>10, <2>11, <2>12
    DEF Check, Counting
<1> QED
  BY Zenon, <1>1, <1>2, <1>3, <1>4, <1>5 DEF HealthNext

\* A container that never ran has no unit, no check and nothing to tell.
LEMMA InitIInv ==
    ASSUME HealthConfigured, HealthInit
    PROVE  IInv
<1>1. HealthTypeOK
  <2>1. /\ startup \in Counters /\ log \in Logs /\ seen \in Histories
        /\ waiter \in [pc : {"none", "state", "status", "ready", "error"}, stopped : Nat]
    BY Zenon DEF HealthInit, Counters, Logs, Histories, NothingSeen, NoWaiter
  <2>2. check \in [Checks -> Runners]
    BY Zenon, IdleFacts DEF HealthInit
  <2> QED
    BY Zenon, <2>1, <2>2 DEF HealthInit, HealthTypeOK
<1>2. \A c \in Checks : check[c].pc = "idle"
  BY Zenon, IdleFacts DEF HealthInit
<1>3. st = "exited" /\ units = {}
  BY Zenon DEF HealthInit
<1>4. Timers
  BY Zenon, <1>2, <1>3 DEF Timers
<1>5. (\A c \in Checks : CheckOf(c)) /\ Alone
  BY Zenon, <1>2 DEF CheckOf, Alone
<1>6. Founded
  <2>1. /\ log.FailingStreak = 0 /\ log.Status = "none" /\ startup.Passed = FALSE
        /\ startup.Successes = 0 /\ seen.bad = 0 /\ seen.passes = 0
    BY Zenon DEF HealthInit, NothingSeen
  <2> QED
    BY <2>1 DEF Founded
<1> QED
  BY Zenon, <1>1, <1>4, <1>5, <1>6 DEF IInv, TameInv

\* A system is as tame as it was chosen.
LEMMA StepIInv ==
    ASSUME HealthConfigured, IInv, [HealthNext]_healthVars
    PROVE  IInv'
<1>1. HealthTypeOK'
  BY Zenon, TypeStep DEF IInv
<1>2. cfg' = cfg
  BY Zenon DEF HealthNext, healthVars, Start, ContainerExits, ContainerCleanup, StartPeriodEnds,
         waitForHealthy, PollState, PollStatus, Fire, Check, Counting, CheckDies,
         checkHealthCheckCanBeRun, HealthCheck, ExecEnds,
         incrementStartupHCSuccessCounter, incrementStartupHCFailureCounter, createTimer,
         RemoveOldUnit, restartWithTimeout, updateHealthCheckLog, processHealthCheckStatus
<1>3. Tame' <=> Tame
  BY Zenon, <1>2 DEF Tame
<1> QED
  BY Zenon, <1>1, <1>3, TameStep DEF IInv

\* The inductive invariant: types always; and in a system in which every check dies
\* with its unit, what units and checks there are and what they have found.
THEOREM Inductive == HealthSpec => []IInv
<1> USE HealthAssumption
<1>1. HealthInit => IInv
  BY Zenon, InitIInv
<1>2. IInv /\ [HealthNext]_healthVars => IInv'
  BY Zenon, StepIInv
<1> QED
  BY <1>1, <1>2, PTL DEF HealthSpec

\* The health in the state of a container was found by checks of this run of it, as
\* many of them as the configuration asks for (updateHealthCheckLog and the counters
\* of the startup check), whatever the number of checks, retries and runs.
THEOREM HealthIsEarned == HealthSpec => []Earned
<1> USE HealthAssumption
<1>1. IInv => Earned
  <2> SUFFICES ASSUME IInv, Tame PROVE Earned
    BY Zenon DEF Earned
  <2>1. Founded
    BY Zenon DEF IInv, TameInv
  <2> QED
    BY Zenon, <2>1 DEF Founded, Earned
<1> QED
  BY <1>1, Inductive, PTL

\* A running container has the one timer its state names, of the kind it is due, and
\* a container that was cleaned up has none (createTimer, removeTransientFiles).
THEOREM OneTimer == HealthSpec => []TimersMatch
<1> USE HealthAssumption
<1>1. IInv => TimersMatch
  <2> SUFFICES ASSUME IInv, Tame, Unlocked PROVE TimersMatch
    BY Zenon DEF TimersMatch
  <2>1. Timers
    BY Zenon DEF IInv, TameInv
  <2>2. run \in Nat /\ Due \in BOOLEAN
    BY Zenon, SystemFacts DEF IInv, HealthTypeOK, Counters, Due
  <2>3. st = "running" => units = {unit} /\ unit.startup = Due
    BY <2>1, <2>2, UnitFacts DEF Timers
  <2>4. st = "exited" => units = {}
    BY Zenon, <2>1 DEF Timers
  <2> QED
    BY Zenon, <2>3, <2>4 DEF TimersMatch, Due
<1> QED
  BY <1>1, Inductive, PTL

\* The on-failure action (processHealthCheckStatus) stops the run that the check has
\* checked, and one that is unhealthy at that moment, although the lock was given up
\* between the log and the action.
THEOREM ActsOnTheUnhealthy == HealthSpec => OnlyUnhealthyIsStopped
<1> USE HealthAssumption
<1> DEFINE A == \A c \in Checks :
          Tame /\ check[c].pc = "act" /\ check'[c].pc = "idle" /\ st = "running" /\ st' = "dead"
          => log.Status = "unhealthy" /\ check[c].run = run
<1>1. IInv => A
  <2> SUFFICES ASSUME IInv, Tame, NEW c \in Checks, check[c].pc = "act"
               PROVE  log.Status = "unhealthy" /\ check[c].run = run
    BY Zenon
  <2> QED
    BY Zenon DEF IInv, TameInv, CheckOf
<1>2. IInv /\ [HealthNext]_healthVars => [A]_healthVars
  BY Zenon, <1>1
<1>3. HealthSpec => [][A]_healthVars
  BY <1>2, Inductive, PTL DEF HealthSpec
<1> QED
  BY Zenon, <1>3 DEF OnlyUnhealthyIsStopped

=============================================================================
