------------------------------ MODULE MCPodOps ------------------------------
\* Small systems of pods for TLC.
EXTENDS PodOps
CONSTANTS i, a, b, svc, p1, p2, x, y, Scenarios

Rm(c, depend, force) ==
    <<"removeContainer", c, [removeDeps |-> depend, force |-> force, noLockPod |-> FALSE]>>

\* A pod with an infra container, a container and one that needs it too.
Plain == [deps |-> (i :> {} @@ a :> {i} @@ b :> {i, a} @@ svc :> {}),
          podOf |-> (i :> p1 @@ a :> p1 @@ b :> p1 @@ svc :> Nil),
          infra |-> {i}, service |-> Nil, exitStop |-> {}, exits |-> {a},
          status |-> (i :> "created" @@ a :> "created" @@ b :> "exited" @@ svc :> "absent")]
PlainCommands ==
    [p \in Procs |->
        {<<"Start", a>>, <<"Start", b>>, <<"PodStart", p1, FALSE>>, <<"PodStart", p1, TRUE>>,
         <<"PodStop", p1>>, Rm(a, FALSE, TRUE), Rm(b, FALSE, FALSE), Rm(i, FALSE, TRUE),
         <<"RemovePod", p1, FALSE, FALSE>>, <<"RemovePod", p1, TRUE, FALSE>>,
         <<"RemovePod", p1, TRUE, TRUE>>}]

\* Removal with --depend, without a start that holds a dependent's lock.
DependCommands ==
    [p \in Procs |->
        IF p = x THEN {Rm(i, TRUE, TRUE), Rm(a, TRUE, FALSE), Rm(a, TRUE, TRUE)}
        ELSE {<<"PodStart", p1, FALSE>>, <<"PodStop", p1>>, Rm(a, TRUE, TRUE),
              <<"RemovePod", p1, TRUE, TRUE>>}]

\* A pod that stops when only its infra container remains.
Policy == [Plain EXCEPT !.exitStop = {p1}, !.exits = {a, b},
             !.deps = (i :> {} @@ a :> {i} @@ b :> {i} @@ svc :> {}),
             !.status = (i :> "running" @@ a :> "running" @@ b :> "running" @@ svc :> "absent")]
PolicyCommands ==
    [p \in Procs |-> IF p = x THEN {<<"Start", a>>, <<"PodStop", p1>>}
                     ELSE {Rm(b, FALSE, TRUE), <<"PodStart", p1, FALSE>>}]

\* Two pods of one container each, and their service container.
Served == [deps |-> (i :> {} @@ a :> {} @@ b :> {} @@ svc :> {}),
           podOf |-> (i :> Nil @@ a :> p1 @@ b :> p2 @@ svc :> Nil),
           infra |-> {}, service |-> svc, exitStop |-> {}, exits |-> {a},
           status |-> (i :> "absent" @@ a :> "running" @@ b :> "running" @@ svc :> "running")]
ServedCommands ==
    [p \in Procs |-> {<<"PodStop", p1>>, <<"PodStop", p2>>, <<"RemovePod", p1, TRUE, TRUE>>,
                      <<"RemovePod", p2, TRUE, TRUE>>}
                     \cup (IF p = x THEN {Rm(svc, FALSE, TRUE)} ELSE {})]

\* The same with pods that are started and none that is stopped.
Restarted == [Served EXCEPT !.status[svc] = "exited", !.exits = {}]
RestartedCommands ==
    [p \in Procs |-> {<<"PodStart", p1, FALSE>>, <<"PodStart", p2, TRUE>>}
                     \cup (IF p = x THEN {<<"RemovePod", p2, TRUE, TRUE>>, Rm(svc, FALSE, TRUE)}
                           ELSE {})]

\* Pods that are started while they are stopped, and start beside rm --depend.
StartedCommands ==
    [p \in Procs |-> IF p = x THEN {<<"PodStop", p1>>} ELSE {<<"PodStart", p1, FALSE>>}]
DependStartCommands ==
    [p \in Procs |-> IF p = x THEN {Rm(a, TRUE, TRUE)} ELSE {<<"Start", b>>}]

Scenario ==
    [plain |-> Plain @@ [commands |-> PlainCommands],
     depend |-> Plain @@ [commands |-> DependCommands],
     policy |-> Policy @@ [commands |-> PolicyCommands],
     served |-> Served @@ [commands |-> ServedCommands],
     restarted |-> Restarted @@ [commands |-> RestartedCommands],
     started |-> Served @@ [commands |-> StartedCommands],
     dependstart |-> Plain @@ [commands |-> DependStartCommands]]

MCSystems == {Scenario[n] : n \in Scenarios}
=============================================================================
