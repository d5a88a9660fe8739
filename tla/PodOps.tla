------------------------------- MODULE PodOps -------------------------------
(***************************************************************************)
(* Commands on pods and on containers that depend on each other            *)
(* (container_graph.go, pod_api.go, runtime_pod_common.go, service.go and  *)
(* the parts of runtime_ctr.go and container_internal.go they call).  Each *)
(* command holds the lock of one object while it takes the locks of        *)
(* others, and each process has a worker thread (runtime_worker.go) for    *)
(* what must not run under the locks its caller holds.                     *)
(*                                                                         *)
(* A thread is the sequence of calls it still has to make; a step is the   *)
(* first of them, up to the next lock.  What start, stop and removal do to *)
(* one container is in module Container; here they are a change of status. *)
(***************************************************************************)
EXTENDS SequencesExt

CONSTANTS Ctrs, Pods, Procs, Nil,
          Systems,   \* the containers, pods and commands to consider
          MayFail    \* the containers whose start may fail

VARIABLES sys,       \* the system at hand
          status,    \* container -> its state
          pods,      \* the pods in the database
          linked,    \* the service container's list of its pods
          lock,      \* container or pod -> the thread that holds its lock
          code,      \* thread -> the calls it has to make
          trav,      \* thread -> the traversal of a dependency graph it is in
          work,      \* process -> the functions in its work queue
          todo       \* the processes that have not started their command

vars == <<sys, status, pods, linked, lock, code, trav, work, todo>>

\* A process is a podman command or the cleanup process of a container.
Owners == Procs \cup Ctrs
Threads == ({"main"} \X Procs) \cup ({"worker"} \X Owners)
Objects == Ctrs \cup Pods

Deps(c) == sys.deps[c]
PodOf(c) == sys.podOf[c]
IsInfra(c) == c \in sys.infra
Service == sys.service

Exists(c) == status[c] # "absent"
Dependents(c) == {d \in Ctrs : c \in Deps(d)}
ContainerInUse(c) == {d \in Dependents(c) : Exists(d)}
PodContainers(p) == {c \in Ctrs : PodOf(c) = p /\ Exists(c)}

NoGraph == [nodes |-> {}, visited |-> {}, errors |-> {}, up |-> {},
            restart |-> FALSE, force |-> FALSE, failed |-> FALSE]

Init ==
    /\ sys \in Systems
    /\ status = [c \in Ctrs |-> sys.status[c]]
    /\ pods = {PodOf(c) : c \in Ctrs} \ {Nil}
    /\ linked = IF Service = Nil THEN {} ELSE {PodOf(c) : c \in Ctrs} \ {Nil}
    /\ lock = [o \in Objects |-> Nil]
    /\ code = [t \in Threads |-> <<>>]
    /\ trav = [t \in Threads |-> NoGraph]
    /\ work = [o \in Owners |-> {}]
    /\ todo = Procs

---------------------------------------------------------------------------
\* The call thread t is in, and the ones after it.
Call(t) == IF code[t] = <<>> THEN <<"none">> ELSE Head(code[t])
In(t, op) == Call(t)[1] = op
Goto(t, calls) == code' = [code EXCEPT ![t] = calls \o Tail(@)]
Return(t) == Goto(t, <<>>)

Lock(t, o) == lock[o] = Nil /\ lock' = [lock EXCEPT ![o] = t]
Unlock(o) == lock' = [lock EXCEPT ![o] = Nil]

\* stopPodIfNeeded, at the end of cleanup(): the pod's exit policy.
stopPodIfNeeded(t, c) ==
    IF PodOf(c) \in pods \cap sys.exitStop
    THEN work' = [work EXCEPT ![t[2]] = @ \cup {<<"stopIfOnlyInfraRemains", PodOf(c), c>>}]
    ELSE UNCHANGED work

Calls(op, S, err) == {[i \in DOMAIN s |-> <<op, s[i], err>>] : s \in SetToSeqs(S)}

---------------------------------------------------------------------------
\* A plausible bug: a node is started as soon as one dependency is up.
StartsEarly(tr, n) == TRUE

DepsVisited(tr, n) == Deps(n) \cap tr.nodes \subseteq tr.visited

SetError(tr, n) == [tr EXCEPT !.visited = @ \cup {n}, !.errors = @ \cup {n}]

\* startNode and removeNode up to where they need a lock: a visited node is
\* left alone; setError marks the node and everybody behind it; a node waits
\* until all before it are visited.  removeNode has no return after setError.
RECURSIVE Settle(_, _)
Settle(tr, calls) ==
    IF calls = <<>> \/ Head(calls)[1] \notin {"startNode", "removeNode", "removeRest"}
    THEN [trav |-> tr, code |-> calls]
    ELSE LET op == Head(calls)[1]
             n == Head(calls)[2]
             err == Head(calls)[3]
             Behind(o) == SetToSeq({<<o, m, TRUE>> : m \in tr.nodes \cap
                              (IF o = "startNode" THEN Dependents(n) ELSE Deps(n))})
         IN CASE op # "removeRest" /\ n \in tr.visited -> Settle(tr, Tail(calls))
              [] op = "startNode" /\ n \notin tr.visited /\ err ->
                    Settle(SetError(tr, n), Behind(op) \o Tail(calls))
              [] op = "removeNode" /\ n \notin tr.visited /\ err ->
                    Settle(SetError(tr, n),
                           Behind(op) \o <<<<"removeRest", n, TRUE>>>> \o Tail(calls))
              [] op = "startNode" /\ n \notin tr.visited /\ ~err ->
                    IF DepsVisited(tr, n)
                    THEN [trav |-> [tr EXCEPT !.visited = @ \cup {n}],
                          code |-> <<<<"checkDependenciesRunning", n, Deps(n), TRUE>>>>
                                   \o Tail(calls)]
                    ELSE Settle(tr, Tail(calls))
              [] OTHER ->
                    IF Dependents(n) \cap tr.nodes \subseteq tr.visited
                    THEN [trav |-> [tr EXCEPT !.visited = @ \cup {n}],
                          code |-> <<<<"removeBody", n>>>> \o Tail(calls)]
                    ELSE Settle(tr, Tail(calls))

Traverse(t, tr, calls) ==
    LET s == Settle(tr, calls \o Tail(code[t])) IN
    /\ trav' = [trav EXCEPT ![t] = s.trav]
    /\ code' = [code EXCEPT ![t] = s.code]

\* BuildContainerGraph: every dependency must be in the list it is given.
BuildContainerGraph(S) == \A c \in S : Deps(c) \subseteq S

noDepNodes(S) == {c \in S : Deps(c) = {}}
notDependedOnNodes(S) == {c \in S : Dependents(c) \cap S = {}}

\* checkDependenciesRunning reads the state of each dependency under its lock;
\* a stopped infra container does not count.
CheckDependency(t) ==
    /\ In(t, "checkDependenciesRunning") /\ Call(t)[3] # {}
    /\ \E d \in Call(t)[3] :
          /\ lock[d] = Nil
          /\ Goto(t, <<<<Call(t)[1], Call(t)[2], Call(t)[3] \ {d},
                         /\ Call(t)[4] /\ Exists(d)
                         /\ status[d] = "running" \/ IsInfra(d)>>>>)
    /\ UNCHANGED <<sys, status, pods, linked, lock, trav, work, todo>>

\* The rest of startNode: (re)start the container under its lock, then visit
\* everybody that depends on it.
StartNode(t) ==
    /\ In(t, "checkDependenciesRunning") /\ Call(t)[3] = {}
    /\ LET n == Call(t)[2]
           try == Call(t)[4] /\ Exists(n)
           starts == try /\ (trav[t].restart \/ status[n] # "running")
           After(ok) == IF ok THEN [trav[t] EXCEPT !.up = @ \cup {n}]
                        ELSE [trav[t] EXCEPT !.errors = @ \cup {n}]
       IN /\ lock[n] = Nil
          /\ \E ok \in {try, try /\ ~(starts /\ n \in MayFail)} :
             \E next \in Calls("startNode", Dependents(n) \cap trav[t].nodes, ~ok) :
                /\ status' = IF ~starts THEN status
                             ELSE [status EXCEPT ![n] = IF ok THEN "running"
                                                        ELSE IF @ = "created" THEN @
                                                        ELSE "exited"]
                /\ IF starts /\ ~ok THEN stopPodIfNeeded(t, n) ELSE UNCHANGED work
                /\ Traverse(t, After(ok), next)
    /\ UNCHANGED <<sys, pods, linked, lock, todo>>

---------------------------------------------------------------------------
\* podman start: Start(recursive) keeps the container locked throughout.
Start(t) ==
    /\ In(t, "Start")
    /\ LET c == Call(t)[2] IN
       /\ lock[c] = Nil
       /\ IF status[c] \in {"created", "stopped", "exited"}
          THEN /\ Lock(t, c)
               /\ Goto(t, <<<<"getAllDependencies", c, Deps(c)>>>>)
               /\ trav' = [trav EXCEPT ![t] = [NoGraph EXCEPT !.restart = TRUE]]
          ELSE Return(t) /\ UNCHANGED <<lock, trav>>
    /\ UNCHANGED <<sys, status, pods, linked, work, todo>>

\* getAllDependencies looks at one more container; it does not look behind a
\* running one.
GetDependency(t) ==
    /\ In(t, "getAllDependencies") /\ Call(t)[3] # {}
    /\ LET c == Call(t)[2]
           seen == trav[t].nodes
       IN \E d \in Call(t)[3] :
          /\ lock[d] = Nil
          /\ IF ~Exists(d)
             THEN Return(t) /\ Unlock(c) /\ UNCHANGED trav
             ELSE /\ UNCHANGED lock
                  /\ IF status[d] = "running"
                     THEN Goto(t, <<<<"getAllDependencies", c, Call(t)[3] \ {d}>>>>)
                          /\ UNCHANGED trav
                     ELSE /\ trav' = [trav EXCEPT ![t].nodes = @ \cup {d}]
                          /\ Goto(t, <<<<"getAllDependencies", c,
                                 (Call(t)[3] \cup Deps(d)) \ (seen \cup {d})>>>>)
    /\ UNCHANGED <<sys, status, pods, linked, work, todo>>

\* startDependencies builds the graph of what it found and starts it.
StartDependencies(t) ==
    /\ In(t, "getAllDependencies") /\ Call(t)[3] = {}
    /\ LET c == Call(t)[2] IN
       IF BuildContainerGraph(trav[t].nodes)
       THEN /\ \E calls \in Calls("startNode", noDepNodes(trav[t].nodes), FALSE) :
                  Traverse(t, trav[t], calls \o <<<<"prepareToStart", c>>>>)
            /\ UNCHANGED lock
       ELSE Return(t) /\ Unlock(c) /\ UNCHANGED trav
    /\ UNCHANGED <<sys, status, pods, linked, work, todo>>

\* The container itself starts once no dependency reported an error.
StartEnd(t) ==
    /\ In(t, "prepareToStart")
    /\ LET c == Call(t)[2]
           try == trav[t].errors = {}
       IN /\ Unlock(c)
          /\ \E ok \in {try, try /\ c \notin MayFail} :
                /\ status' = [status EXCEPT ![c] = IF ok THEN "running"
                                                   ELSE IF try /\ @ # "created" THEN "exited"
                                                   ELSE @]
                /\ IF try /\ ~ok THEN stopPodIfNeeded(t, c) ELSE UNCHANGED work
    /\ Return(t)
    /\ UNCHANGED <<sys, pods, linked, trav, todo>>

---------------------------------------------------------------------------
\* podman pod start and restart: service container, graph, traversal.
PodStart(t) ==
    /\ In(t, "PodStart")
    /\ Lock(t, Call(t)[2])
    /\ LET p == Call(t)[2]
           rest == <<<<"podGraph", p, Call(t)[3]>>>>
       IN Goto(t, IF Service = Nil THEN rest
                  ELSE <<<<"maybeStartServiceContainer", p>>>> \o rest)
    /\ UNCHANGED <<sys, status, pods, linked, trav, work, todo>>

maybeStartServiceContainer(t) ==
    /\ In(t, "maybeStartServiceContainer")
    /\ lock[Service] = Nil
    /\ \/ /\ Exists(Service)
          /\ status' = [status EXCEPT ![Service] = "running"]
          /\ Return(t) /\ UNCHANGED lock
       \/ /\ Exists(Service) => Service \in MayFail /\ status[Service] # "running"
          /\ code' = [code EXCEPT ![t] = Tail(Tail(@))]
          /\ Unlock(Call(t)[2]) /\ UNCHANGED status
    /\ UNCHANGED <<sys, pods, linked, trav, work, todo>>

PodGraph(t) ==
    /\ In(t, "podGraph")
    /\ LET p == Call(t)[2]
           ctrs == PodContainers(p)
       IN IF p \in pods /\ BuildContainerGraph(ctrs) /\ noDepNodes(ctrs) # {}
          THEN /\ \E calls \in Calls("startNode", noDepNodes(ctrs), FALSE) :
                     Traverse(t, [NoGraph EXCEPT !.nodes = ctrs, !.restart = Call(t)[3]],
                              calls \o <<<<"unlock", p>>>>)
               /\ UNCHANGED lock
          ELSE Return(t) /\ Unlock(p) /\ UNCHANGED trav
    /\ UNCHANGED <<sys, status, pods, linked, work, todo>>

UnlockObject(t) ==
    /\ In(t, "unlock") /\ Unlock(Call(t)[2]) /\ Return(t)
    /\ UNCHANGED <<sys, status, pods, linked, trav, work, todo>>

---------------------------------------------------------------------------
\* podman pod stop: every container is stopped and cleaned up, in parallel.
PodStop(t) ==
    /\ In(t, "PodStop")
    /\ LET p == Call(t)[2] IN
       /\ lock[p] = Nil
       /\ IF p \in pods
          THEN Lock(t, p) /\ Goto(t, <<<<"stopWithTimeout", p, PodContainers(p)>>>>)
          ELSE Return(t) /\ UNCHANGED lock
    /\ UNCHANGED <<sys, status, pods, linked, trav, work, todo>>

StopOne(t) ==
    /\ In(t, "stopWithTimeout") /\ Call(t)[3] # {}
    /\ \E c \in Call(t)[3] :
          /\ lock[c] = Nil
          /\ IF status[c] \in {"running", "stopped"}
             THEN /\ status' = [status EXCEPT ![c] = "exited"]
                  /\ stopPodIfNeeded(t, c)
             ELSE UNCHANGED <<status, work>>
          /\ Goto(t, <<<<"stopWithTimeout", Call(t)[2], Call(t)[3] \ {c}>>>>)
    /\ UNCHANGED <<sys, pods, linked, lock, trav, todo>>

\* maybeStopServiceContainer leaves the check to the worker.
StopEnd(t) ==
    /\ In(t, "stopWithTimeout") /\ Call(t)[3] = {}
    /\ LET p == Call(t)[2] IN
       /\ Unlock(p)
       /\ work' = IF Service # Nil /\ Exists(Service)
                  THEN [work EXCEPT ![t[2]] = @ \cup {<<"canStopServiceContainer", p>>}]
                  ELSE work
    /\ Return(t)
    /\ UNCHANGED <<sys, status, pods, linked, trav, todo>>

\* stopIfOnlyInfraRemains, in the worker: the pod is locked, the other
\* containers are looked at one by one, and the pod is stopped if none runs.
StopIfOnlyInfraRemains(t) ==
    /\ In(t, "stopIfOnlyInfraRemains")
    /\ LET p == Call(t)[2] IN
       /\ lock[p] = Nil
       /\ IF p \in pods
          THEN /\ Lock(t, p)
               /\ Goto(t, <<<<"onlyInfra", p,
                     {c \in PodContainers(p) : ~IsInfra(c) /\ c # Call(t)[3]}>>>>)
          ELSE Return(t) /\ UNCHANGED lock
    /\ UNCHANGED <<sys, status, pods, linked, trav, work, todo>>

LookAtContainer(t) ==
    /\ In(t, "onlyInfra")
    /\ LET p == Call(t)[2] IN
       \/ /\ Call(t)[3] = {}
          /\ Goto(t, <<<<"stopWithTimeout", p, PodContainers(p)>>>>)
          /\ UNCHANGED lock
       \/ \E c \in Call(t)[3] :
             /\ lock[c] = Nil
             /\ IF status[c] = "exited"
                THEN Goto(t, <<<<"onlyInfra", p, Call(t)[3] \ {c}>>>>) /\ UNCHANGED lock
                ELSE Return(t) /\ Unlock(p)
    /\ UNCHANGED <<sys, status, pods, linked, trav, work, todo>>

---------------------------------------------------------------------------
\* A plausible bug: the recursive removal locks the pod again.
RecursiveLocksPod(opts) == opts

RecursiveOpts(opts) == [opts EXCEPT !.noLockPod = TRUE]

\* removeContainer: first the lock of the pod, unless the caller holds it.
RemoveContainer(t) ==
    /\ In(t, "removeContainer")
    /\ LET c == Call(t)[2]
           opts == Call(t)[3]
           p == PodOf(c)
       IN IF trav[t].failed \/ ~Exists(c) \/ (p # Nil /\ p \notin pods)
          THEN Return(t) /\ UNCHANGED lock
          ELSE IF p = Nil \/ opts.noLockPod
          THEN Goto(t, <<<<"removeLocked", c, opts>>>>) /\ UNCHANGED lock
          ELSE /\ Lock(t, p)
               /\ Goto(t, IF IsInfra(c) /\ ~opts.removeDeps
                          THEN <<<<"unlock", p>>>>
                          ELSE <<<<"removeLocked", c, opts>>, <<"unlock", p>>>>)
    /\ UNCHANGED <<sys, status, pods, linked, trav, work, todo>>

Running(c) == status[c] = "running"

\* A plausible bug: the service container is removed like any other.
NoServedPods(c) == {}

\* The pods of a service container that still exist.
ServedPods(c) == IF c = Service THEN linked \cap pods ELSE {}

\* Then the container's.  The service container takes its pods with it, an
\* infra container its pod, and with --depend a container those that need it.
RemoveLocked(t) ==
    /\ In(t, "removeLocked")
    /\ LET c == Call(t)[2]
           opts == Call(t)[3]
           served == ServedPods(c)
           fails == \/ ~Exists(c)
                    \/ served # {} /\ ~opts.removeDeps
                    \/ ~IsInfra(c) /\ Running(c) /\ ~opts.force
                    \/ ~IsInfra(c) /\ ContainerInUse(c) # {} /\ ~opts.removeDeps
       IN /\ lock[c] = Nil
          /\ IF fails
             THEN /\ Return(t) /\ UNCHANGED lock
                  /\ trav' = [trav EXCEPT ![t].failed = @ \/ Exists(c)]
             ELSE IF IsInfra(c)
             THEN Goto(t, <<<<"removePod", PodOf(c), TRUE, opts.force>>>>) /\ UNCHANGED <<lock, trav>>
             ELSE /\ Lock(t, c) /\ UNCHANGED trav
                  /\ \E first \in SetToSeqs({<<"RemovePod", q, TRUE, opts.force>> : q \in served}) :
                     \E then \in SetToSeqs({<<"removeContainer", d, RecursiveOpts(opts)>> : d \in ContainerInUse(c)}) :
                        Goto(t, first \o then \o <<<<"removeEnd", c>>>>)
    /\ UNCHANGED <<sys, status, pods, linked, work, todo>>

\* Cleanup and the removal of the row, which fails while it is needed.
RemoveEnd(t) ==
    /\ In(t, "removeEnd")
    /\ LET c == Call(t)[2] IN
       /\ Unlock(c)
       /\ IF trav[t].failed THEN UNCHANGED <<status, work>>
          ELSE /\ status' = [status EXCEPT ![c] = IF ContainerInUse(c) = {}
                                                  THEN "absent" ELSE "exited"]
               /\ stopPodIfNeeded(t, c)
    /\ Return(t)
    /\ UNCHANGED <<sys, pods, linked, trav, todo>>

---------------------------------------------------------------------------
\* podman pod rm.
RemovePod(t) ==
    /\ In(t, "RemovePod")
    /\ LET p == Call(t)[2] IN
       IF trav[t].failed THEN Return(t) /\ UNCHANGED lock
       ELSE /\ Lock(t, p)
            /\ Goto(t, <<<<"removePod", p, Call(t)[3], Call(t)[4]>>, <<"unlock", p>>>>)
    /\ UNCHANGED <<sys, status, pods, linked, trav, work, todo>>

\* removePod, with the pod locked: the graph is taken apart from the nodes
\* nobody depends on.  An infra container alone never stands in the way.
RemovePodLocked(t) ==
    /\ In(t, "removePod")
    /\ LET p == Call(t)[2]
           ctrs == PodContainers(p)
           onlyInfra == Cardinality(ctrs) = 1 /\ \A c \in ctrs : IsInfra(c)
       IN IF p \notin pods \/ (~Call(t)[3] /\ ~onlyInfra /\ ctrs # {})
          THEN Return(t) /\ UNCHANGED trav
          ELSE \E calls \in Calls("removeNode", notDependedOnNodes(ctrs), FALSE) :
                  Traverse(t, [NoGraph EXCEPT !.nodes = ctrs,
                                              !.force = Call(t)[4] \/ onlyInfra],
                           calls \o <<<<"removedAll", p>>>>)
    /\ UNCHANGED <<sys, status, pods, linked, lock, work, todo>>

\* A plausible bug: a container that failed is not reported.
RemoveNodeSilent(t) ==
    /\ In(t, "removeBody")
    /\ LET n == Call(t)[2]
           err == \/ ~Exists(n) \/ ContainerInUse(n) # {}
                  \/ Running(n) /\ ~trav[t].force /\ ~IsInfra(n)
       IN /\ lock[n] = Nil
          /\ status' = IF err THEN status ELSE [status EXCEPT ![n] = "absent"]
          /\ IF err THEN UNCHANGED work ELSE stopPodIfNeeded(t, n)
          /\ \E next \in Calls("removeNode", Deps(n) \cap trav[t].nodes, FALSE) :
                Traverse(t, trav[t], next)
    /\ UNCHANGED <<sys, pods, linked, lock, todo>>

\* The rest of removeNode: the container is removed under its lock.
RemoveNode(t) ==
    /\ In(t, "removeBody")
    /\ LET n == Call(t)[2]
           err == \/ ~Exists(n) \/ ContainerInUse(n) # {}
                  \/ Running(n) /\ ~trav[t].force /\ ~IsInfra(n)
       IN /\ lock[n] = Nil
          /\ status' = IF err THEN status ELSE [status EXCEPT ![n] = "absent"]
          /\ IF err THEN UNCHANGED work ELSE stopPodIfNeeded(t, n)
          /\ \E next \in Calls("removeNode", Deps(n) \cap trav[t].nodes, err) :
                Traverse(t, IF err THEN [trav[t] EXCEPT !.errors = @ \cup {n}] ELSE trav[t],
                         next)
    /\ UNCHANGED <<sys, pods, linked, lock, todo>>

\* maybeRemoveServiceContainer queues the check, then the pod's row goes.
RemovedAll(t) ==
    /\ In(t, "removedAll")
    /\ LET p == Call(t)[2] IN
       IF trav[t].errors # {}
       THEN /\ trav' = [trav EXCEPT ![t].failed = TRUE]
            /\ Return(t) /\ UNCHANGED work
       ELSE /\ Goto(t, <<<<"deletePod", p>>>>)
            /\ work' = IF Service # Nil /\ Exists(Service)
                       THEN [work EXCEPT ![t[2]] = @ \cup {<<"unlinkPod", p>>}]
                       ELSE work
            /\ UNCHANGED trav
    /\ UNCHANGED <<sys, status, pods, linked, lock, todo>>

DeletePod(t) ==
    /\ In(t, "deletePod")
    /\ pods' = IF PodContainers(Call(t)[2]) = {} THEN pods \ {Call(t)[2]} ELSE pods
    /\ Return(t)
    /\ UNCHANGED <<sys, status, linked, lock, trav, work, todo>>

---------------------------------------------------------------------------
\* canStopServiceContainerLocked, in the worker: the service container stays
\* locked while the status of each of its pods is taken under the pod's lock.
CanStopServiceContainer(t) ==
    /\ In(t, "canStopServiceContainer")
    /\ lock[Service] = Nil
    /\ IF Exists(Service)
       THEN Lock(t, Service) /\ Goto(t, <<<<"servicePods", linked>>>>)
       ELSE Return(t) /\ UNCHANGED lock
    /\ UNCHANGED <<sys, status, pods, linked, trav, work, todo>>

ServicePod(t) ==
    /\ In(t, "servicePods") /\ Call(t)[2] # {}
    /\ \E q \in Call(t)[2] :
       LET rest == <<"servicePods", Call(t)[2] \ {q}>> IN
       IF q \notin pods
       THEN Goto(t, <<rest>>) /\ UNCHANGED lock
       ELSE Lock(t, q) /\ Goto(t, <<<<"podStatus", q, PodContainers(q), {}>>, rest>>)
    /\ UNCHANGED <<sys, status, pods, linked, trav, work, todo>>

PodStatus(t) ==
    /\ In(t, "podStatus") /\ Call(t)[3] # {}
    /\ \E c \in Call(t)[3] :
          /\ lock[c] = Nil
          /\ Goto(t, <<<<"podStatus", Call(t)[2], Call(t)[3] \ {c},
                         Call(t)[4] \cup {<<c, status[c]>>}>>>>)
    /\ UNCHANGED <<sys, status, pods, linked, lock, trav, work, todo>>

\* A pod counts as stopped when nothing runs and something has stopped, and
\* every container but the infra has an exit code.
Stopped(seen) ==
    /\ \E s \in seen : s[2] \in {"stopped", "exited"}
    /\ \A s \in seen : \/ s[2] \in {"stopped", "exited"}
                       \/ s[2] = "created" /\ IsInfra(s[1])

PodStatusEnd(t) ==
    /\ In(t, "podStatus") /\ Call(t)[3] = {}
    /\ IF Stopped(Call(t)[4])
       THEN Unlock(Call(t)[2]) /\ Return(t)
       ELSE /\ lock' = [lock EXCEPT ![Call(t)[2]] = Nil, ![Service] = Nil]
            /\ code' = [code EXCEPT ![t] = Tail(Tail(@))]
    /\ UNCHANGED <<sys, status, pods, linked, trav, work, todo>>

\* No pod runs: the lock is released, then the service container is killed.
ServicePodsEnd(t) ==
    /\ In(t, "servicePods") /\ Call(t)[2] = {}
    /\ Unlock(Service)
    /\ Goto(t, <<<<"Kill", Service>>>>)
    /\ UNCHANGED <<sys, status, pods, linked, trav, work, todo>>

Kill(t) ==
    /\ In(t, "Kill")
    /\ lock[Call(t)[2]] = Nil
    /\ status' = [status EXCEPT ![Call(t)[2]] = IF @ = "running" THEN "stopped" ELSE @]
    /\ Return(t)
    /\ UNCHANGED <<sys, pods, linked, lock, trav, work, todo>>

\* maybeRemoveServiceContainer, in the worker: the pod is unlinked, and the
\* last one takes the service container with it.
UnlinkPod(t) ==
    /\ In(t, "unlinkPod")
    /\ lock[Service] = Nil
    /\ IF ~Exists(Service) THEN Return(t) /\ UNCHANGED linked
       ELSE /\ linked' = linked \ {Call(t)[2]}
            /\ Goto(t, IF linked' \cap pods # {} THEN <<>>
                       ELSE <<<<"removeContainer", Service,
                               [removeDeps |-> FALSE, force |-> TRUE, noLockPod |-> FALSE]>>>>)
    /\ UNCHANGED <<sys, status, pods, lock, trav, work, todo>>

---------------------------------------------------------------------------
\* A process starts its command; its worker takes a function from the queue.
Begin(p) ==
    /\ p \in todo
    /\ todo' = todo \ {p}
    /\ \E call \in sys.commands[p] : code' = [code EXCEPT ![<<"main", p>>] = <<call>>]
    /\ UNCHANGED <<sys, status, pods, linked, lock, trav, work>>

Work(o) ==
    /\ code[<<"worker", o>>] = <<>>
    /\ \E f \in work[o] :
          /\ code' = [code EXCEPT ![<<"worker", o>>] = <<f>>]
          /\ work' = [work EXCEPT ![o] = @ \ {f}]
    /\ trav' = [trav EXCEPT ![<<"worker", o>>] = NoGraph]
    /\ UNCHANGED <<sys, status, pods, linked, lock, todo>>

\* A container exits, and conmon starts podman container cleanup.
Exit(c) ==
    /\ status[c] = "running" /\ c \in sys.exits
    /\ status' = [status EXCEPT ![c] = "stopped"]
    /\ UNCHANGED <<sys, pods, linked, lock, code, trav, work, todo>>

\* A plausible bug: only podman stop looks at the exit policy.
CleanupQuietly(c) ==
    /\ status[c] = "stopped" /\ lock[c] = Nil
    /\ status' = [status EXCEPT ![c] = "exited"]
    /\ UNCHANGED <<sys, pods, linked, lock, code, trav, work, todo>>

Cleanup(c) ==
    /\ status[c] = "stopped" /\ lock[c] = Nil
    /\ status' = [status EXCEPT ![c] = "exited"]
    /\ stopPodIfNeeded(<<"main", c>>, c)
    /\ UNCHANGED <<sys, pods, linked, lock, code, trav, todo>>

Calling(t) ==
    \/ Start(t) \/ GetDependency(t) \/ StartDependencies(t) \/ StartEnd(t)
    \/ CheckDependency(t) \/ StartNode(t)
    \/ PodStart(t) \/ maybeStartServiceContainer(t) \/ PodGraph(t) \/ UnlockObject(t)
    \/ PodStop(t) \/ StopOne(t) \/ StopEnd(t)
    \/ StopIfOnlyInfraRemains(t) \/ LookAtContainer(t)
    \/ RemoveContainer(t) \/ RemoveLocked(t) \/ RemoveEnd(t)
    \/ RemovePod(t) \/ RemovePodLocked(t) \/ RemoveNode(t) \/ RemovedAll(t) \/ DeletePod(t)
    \/ CanStopServiceContainer(t) \/ ServicePod(t) \/ PodStatus(t) \/ PodStatusEnd(t)
    \/ ServicePodsEnd(t) \/ Kill(t) \/ UnlinkPod(t)

Step(t) == code[t] # <<>> /\ Calling(t)

Progress ==
    \/ \E t \in Threads : Step(t)
    \/ \E o \in Owners : Work(o)
    \/ \E c \in Ctrs : Cleanup(c)

Next == Progress \/ (\E p \in Procs : Begin(p)) \/ (\E c \in Ctrs : Exit(c))

\* As long as some thread can take its next step, some worker its next function
\* or conmon start a cleanup, one of them does.
Fairness == WF_vars(Progress)

Spec == Init /\ [][Next]_vars /\ Fairness

---------------------------------------------------------------------------
\* The locks t takes next, one after the other or at once, in an order the database
\* or the scheduler chooses: it may be waiting for any of them.
Needs(t) ==
    LET k == Call(t) IN
    CASE k[1] \in {"Start", "PodStart", "PodStop", "stopIfOnlyInfraRemains", "RemovePod",
                   "removeLocked", "removeBody", "Kill"} -> {k[2]}
      [] k[1] \in {"getAllDependencies", "stopWithTimeout", "onlyInfra", "podStatus"} -> k[3]
      [] k[1] = "checkDependenciesRunning" -> IF k[3] = {} THEN {k[2]} ELSE k[3]
      [] k[1] \in {"maybeStartServiceContainer", "canStopServiceContainer",
                   "unlinkPod"} -> {Service}
      [] k[1] = "removeContainer" -> IF k[3].noLockPod \/ ~Exists(k[2]) THEN {}
                                     ELSE {PodOf(k[2])} \cap pods
      [] k[1] = "servicePods" -> IF k[2] \subseteq pods THEN k[2] ELSE {}
      [] OTHER -> {}

\* No threads wait for each other in a circle (ABBA): pods are locked before
\* their containers and what would break that order is left to the worker.
NoDeadlock ==
    \A S \in SUBSET {t \in Threads : Needs(t) # {}} \ {{}} :
        \E t \in S : \A o \in Needs(t) : lock[o] \notin S

\* Starting in dependency order: what a traversal of startNode has brought up
\* had all its dependencies in the graph brought up before, and a node whose
\* dependency failed is reported as failed.
StartOrder ==
    \A t \in Threads : trav[t].up # {} =>
        /\ \A n \in trav[t].up : Deps(n) \cap trav[t].nodes \subseteq trav[t].up
        /\ \A n \in trav[t].visited : Deps(n) \cap trav[t].errors # {} => n \in trav[t].errors

\* removePod returns with every container of the graph visited, the ones
\* without an error are gone, and a pod is not deleted before its containers.
PodRemoval ==
    /\ \A t \in Threads : In(t, "removedAll") =>
          /\ trav[t].nodes = trav[t].visited
          /\ \A c \in trav[t].nodes \ trav[t].errors : ~Exists(c)
    /\ \A t \in Threads : In(t, "deletePod") => PodContainers(Call(t)[2]) = {}
    /\ \A c \in Ctrs : Exists(c) => PodOf(c) \in pods \cup {Nil}

\* The service container goes after the last of its pods: when it is gone,
\* every pod left is one that is about to be deleted.
ServiceGoesLast ==
    Service # Nil /\ ~Exists(Service) =>
        \A p \in pods : \E t \in Threads : Call(t) = <<"deletePod", p>>

\* Exit policy "stop": once all containers of a pod but the infra have exited,
\* the infra container is stopped, however the cleanups of the containers and
\* the workers they leave behind interleave.
InfraStops ==
    \A p \in Pods :
        LET infra == PodContainers(p) \cap sys.infra
            others == PodContainers(p) \ sys.infra
            down == \A c \in others : status[c] \in {"stopped", "exited"}
        IN (p \in sys.exitStop /\ others # {} /\ down)
              ~> (~down \/ \A c \in infra : ~Running(c))
=============================================================================
