------------------------------ MODULE MCInside ------------------------------
(***************************************************************************)
(* What goes on inside and around a running container, for TLC: its exec   *)
(* sessions, its health checks and its volumes.  One of the three is       *)
(* chosen initially and is the one that runs.                              *)
(***************************************************************************)
EXTENDS Exec, Healthcheck, VolumeMounts, TLC

CONSTANTS s1, s2, c1, c2, v1, v2

VARIABLE part

\* How two exec sessions are used, and what goes wrong.
ExecSystem(k1, k2, f) == [kind |-> s1 :> k1 @@ s2 :> k2, faults |-> f]
MCSystems ==
    {ExecSystem("cli", k, f) : k \in {"detached", "health", "http"},
        f \in {{"reap", "rmexec"}, {"stop", "restart"}, {"stop", "rm", "stopexec"},
               {"die", "stop", "restart"}, {"slow", "startfail", "detach", "resize"}}}
    \cup {ExecSystem("http", "http detached", {"die", "stop"}),
          ExecSystem("cli", "http detached", {"reap", "stop", "startfail"})}

\* A container with a health check, with or without a startup check.
Plain == [startup |-> FALSE, Successes |-> 1, StartupRetries |-> 0, Retries |-> 2,
          period |-> FALSE, kube |-> FALSE, notify |-> FALSE, policy |-> FALSE,
          action |-> "stop", faults |-> {"exit", "stop"}]
Startup == [Plain EXCEPT !.startup = TRUE, !.Successes = 2, !.Retries = 1]
MCConfigs ==
    {[Plain EXCEPT !.action = "restart", !.period = TRUE],
     [Plain EXCEPT !.policy = TRUE, !.period = TRUE, !.kube = TRUE],
     [Plain EXCEPT !.notify = TRUE],
     [Plain EXCEPT !.faults = {"die", "exit"}],
     [Plain EXCEPT !.faults = {"overtake", "stop"}],
     [Plain EXCEPT !.faults = {"user", "stop"}],
     [Startup EXCEPT !.policy = TRUE],
     [Startup EXCEPT !.faults = {"die", "exit"}, !.action = "none"],
     [Startup EXCEPT !.StartupRetries = 2, !.faults = {"user"}],
     [Startup EXCEPT !.StartupRetries = 2, !.faults = {"exit"}],
     [Startup EXCEPT !.StartupRetries = 2, !.faults = {}]}

\* Two containers share a volume, and one of them is started twice.
MCNamedVolumes == c1 :> <<v1, v2>> @@ c2 :> <<v1>>
MCMaxRestarts == c1 :> 2 @@ c2 :> 1

MCInit ==
    /\ part \in {"exec", "health", "volumes"}
    /\ ExecInit /\ HealthInit /\ VolumesInit
    /\ part # "exec" => sys = CHOOSE s \in Systems : TRUE
    /\ part # "health" => cfg = CHOOSE s \in Configs : TRUE
    /\ part # "volumes" => faults = CHOOSE f \in FaultSets : TRUE

MCNext ==
    /\ UNCHANGED part
    /\ \/ part = "exec" /\ ExecNext /\ UNCHANGED <<healthVars, volumeVars>>
       \/ part = "health" /\ HealthNext /\ UNCHANGED <<execVars, volumeVars>>
       \/ part = "volumes" /\ VolumesNext /\ UNCHANGED <<execVars, healthVars>>

\* Fairness of Exec and Healthcheck, when it is they that run.
MCSpec ==
    /\ MCInit /\ [][MCNext]_<<part, execVars, healthVars, volumeVars>>
    /\ \A s \in Sessions : /\ WF_execVars(part = "exec" /\ Client(s))
                           /\ WF_execVars(part = "exec" /\ ConmonWrites(s))
                           /\ WF_execVars(part = "exec" /\ ExitCommand(s))
    /\ WF_execVars(part = "exec" /\ Command)
    /\ \A c \in Checks : WF_healthVars(part = "health" /\ Check(c))
    /\ WF_healthVars(part = "health" /\ (\E c \in Checks : Fire(c)))
    /\ WF_healthVars(part = "health" /\ ContainerCleanup)
    /\ WF_healthVars(part = "health" /\ waitForHealthy)
    /\ WF_healthVars(part = "health" /\ StartPeriodEnds)
=============================================================================
