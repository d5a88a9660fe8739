----------------------------- MODULE BoltState -----------------------------
(***************************************************************************)
(* The BoltDB backend (libpod/boltdb_state.go, boltdb_state_internal.go).  *)
(* It keeps the same facts in several buckets: a container is in the ID    *)
(* and name registries it shares with the pods, in the list of all         *)
(* containers, in a bucket of its own, in its pod's bucket, and in the     *)
(* dependency buckets of the containers and volumes it uses.  Every method *)
(* is one transaction: a method that fails changes nothing.                *)
(***************************************************************************)
CONSTANTS Ctrs, Pods, Vols, Names, Sessions, Nets, Nil,
          ConfigsOf,    \* container ID -> the configurations it is created with
          StaleCopies   \* may a process write with a copy it read long ago?

VARIABLES ids,          \* idRegistryBkt: container or pod ID -> name
          names,        \* nameRegistryBkt: name -> container or pod ID
          allCtrs,      \* allCtrsBkt: container ID -> name
          ctr,          \* ctrBkt: container ID -> its config key
          ctrDeps,      \* its dependencies bucket: who depends on it
          ctrExec,      \* its exec bucket
          ctrNets,      \* its networks bucket
          podBkt,       \* the pods that have a bucket
          allPods,      \* allPodsBkt: pod ID -> name
          podCtrs,      \* a pod's containers bucket: container ID -> name
          allVols,      \* volBkt and allVolsBkt
          volDeps,      \* a volume's dependencies bucket
          exec,         \* execBkt: session -> container ID
          exitCodes,    \* exitCodeBkt and exitCodeTimeStampBkt
          mem           \* the name in the Container struct some process holds

boltVars == <<ids, names, allCtrs, ctr, ctrDeps, ctrExec, ctrNets, podBkt,
              allPods, podCtrs, allVols, volDeps, exec, exitCodes, mem>>

IDs == Ctrs \cup Pods

BoltInit ==
    /\ ids = [i \in IDs |-> Nil]
    /\ names = [n \in Names |-> Nil]
    /\ allCtrs = [c \in Ctrs |-> Nil]
    /\ ctr = [c \in Ctrs |-> Nil]
    /\ ctrDeps = [c \in Ctrs |-> {}]
    /\ ctrExec = [c \in Ctrs |-> {}]
    /\ ctrNets = [c \in Ctrs |-> {}]
    /\ podBkt = {}
    /\ allPods = [p \in Pods |-> Nil]
    /\ podCtrs = [p \in Pods |-> [c \in Ctrs |-> Nil]]
    /\ allVols = {}
    /\ volDeps = [v \in Vols |-> {}]
    /\ exec = [s \in Sessions |-> Nil]
    /\ exitCodes = {}
    /\ mem = [c \in Ctrs |-> Nil]

InPod(p) == {c \in Ctrs : podCtrs[p][c] # Nil}

---------------------------------------------------------------------------
\* addContainer, for AddContainer (no pod) and AddContainerToPod.
AddContainerAccepted(c, cfg) ==
    /\ cfg.pod # Nil => cfg.pod \in podBkt
    /\ ids[c] = Nil
    /\ names[cfg.name] = Nil
    /\ \A d \in cfg.deps : ctr[d] # Nil /\ ctr[d].pod = cfg.pod
    /\ cfg.vols \subseteq allVols

AddContainer(c, cfg) ==
    /\ AddContainerAccepted(c, cfg)
    /\ ids' = [ids EXCEPT ![c] = cfg.name]
    /\ names' = [names EXCEPT ![cfg.name] = c]
    /\ allCtrs' = [allCtrs EXCEPT ![c] = cfg.name]
    /\ ctr' = [ctr EXCEPT ![c] = [name |-> cfg.name, pod |-> cfg.pod,
                                  deps |-> cfg.deps, vols |-> cfg.vols]]
    /\ ctrNets' = [ctrNets EXCEPT ![c] = cfg.nets]
    /\ ctrDeps' = [d \in Ctrs |-> IF d \in cfg.deps THEN ctrDeps[d] \cup {c}
                                                    ELSE ctrDeps[d]]
    /\ podCtrs' = [p \in Pods |-> IF p = cfg.pod
                                  THEN [podCtrs[p] EXCEPT ![c] = cfg.name]
                                  ELSE podCtrs[p]]
    /\ volDeps' = [v \in Vols |-> IF v \in cfg.vols THEN volDeps[v] \cup {c}
                                                    ELSE volDeps[v]]
    /\ mem' = [mem EXCEPT ![c] = cfg.name]
    /\ UNCHANGED <<ctrExec, podBkt, allPods, allVols, exec, exitCodes>>

\* A process loads the container (Container, LookupContainer, AllContainers).
Load(c) ==
    /\ ctr[c] # Nil
    /\ mem' = [mem EXCEPT ![c] = ctr[c].name]
    /\ UNCHANGED <<ids, names, allCtrs, ctr, ctrDeps, ctrExec, ctrNets, podBkt,
                   allPods, podCtrs, allVols, volDeps, exec, exitCodes>>

\* syncContainer refreshes the state of a Container struct and never its
\* config, so the name in it is the one of the time it was loaded.
Usable(c) == mem[c] # Nil /\ (StaleCopies \/ (ctr[c] # Nil => mem[c] = ctr[c].name))

\* A plausible bug: the containers that depend on this one are not looked for.
RemoveNeededContainer(c) ==
    /\ ctr[c] # Nil
    /\ ctr[c].pod # Nil => ctr[c].pod \in podBkt /\ podCtrs[ctr[c].pod][c] # Nil
    /\ ctrExec[c] = {}

\* removeContainer, for RemoveContainer and RemoveContainerFromPod.
RemoveContainerAccepted(c) ==
    /\ ctr[c] # Nil
    /\ ctr[c].pod # Nil => ctr[c].pod \in podBkt /\ podCtrs[ctr[c].pod][c] # Nil
    /\ ctrExec[c] = {}
    /\ ctrDeps[c] = {}

\* The name is unregistered by the name in the caller's copy.  A volume's
\* dependency on the container stays: the code deletes it only where it is
\* not there (boltdb_state_internal.go:992), and the readers of the bucket
\* skip containers that are gone.
RemoveContainer(c) ==
    /\ Usable(c)
    /\ RemoveContainerAccepted(c)
    /\ ctr' = [ctr EXCEPT ![c] = Nil]
    /\ ids' = [ids EXCEPT ![c] = Nil]
    /\ names' = [names EXCEPT ![mem[c]] = Nil]
    /\ allCtrs' = [allCtrs EXCEPT ![c] = Nil]
    /\ ctrNets' = [ctrNets EXCEPT ![c] = {}]
    /\ ctrDeps' = [d \in Ctrs |-> IF d \in ctr[c].deps THEN ctrDeps[d] \ {c}
                                                       ELSE ctrDeps[d]]
    /\ podCtrs' = [p \in Pods |-> IF p = ctr[c].pod
                                  THEN [podCtrs[p] EXCEPT ![c] = Nil]
                                  ELSE podCtrs[p]]
    /\ mem' = [mem EXCEPT ![c] = Nil]
    /\ UNCHANGED <<ctrExec, podBkt, allPods, allVols, volDeps, exec, exitCodes>>

\* RenameContainer reads the config again, takes the old name from it and calls
\* SafeRewriteContainerConfig.  The renaming process's copy has the new name;
\* another process's copy keeps the old one.
RenameAccepted(c, n) ==
    /\ ctr[c] # Nil
    /\ names[n] \in {Nil, c}
    /\ names[n] = Nil /\ ctr[c].pod # Nil => ctr[c].pod \in podBkt

SafeRewriteContainerConfig(c, n) ==
    /\ RenameAccepted(c, n)
    /\ IF names[n] = Nil
       THEN /\ names' = [names EXCEPT ![ctr[c].name] = Nil, ![n] = c]
            /\ ids' = [ids EXCEPT ![c] = n]
            /\ allCtrs' = [allCtrs EXCEPT ![c] = n]
            /\ podCtrs' = [p \in Pods |-> IF p = ctr[c].pod
                                          THEN [podCtrs[p] EXCEPT ![c] = n]
                                          ELSE podCtrs[p]]
       ELSE UNCHANGED <<names, ids, allCtrs, podCtrs>>
    /\ ctr' = [ctr EXCEPT ![c].name = n]
    /\ mem' \in {mem, [mem EXCEPT ![c] = n]}
    /\ UNCHANGED <<ctrDeps, ctrExec, ctrNets, podBkt, allPods, allVols, volDeps,
                   exec, exitCodes>>

\* update and refresh rewrite the whole config from the copy in memory, to
\* change a field the model leaves out (resources, restart policy, ports).
Update(c) ==
    /\ Usable(c)
    /\ ctr[c] # Nil
    /\ ctr' = [ctr EXCEPT ![c].name = mem[c]]
    /\ UNCHANGED <<ids, names, allCtrs, ctrDeps, ctrExec, ctrNets, podBkt,
                   allPods, podCtrs, allVols, volDeps, exec, exitCodes, mem>>

---------------------------------------------------------------------------
\* Bridge containers only (isBridgeNetMode), which are created with a network
\* and so have a networks bucket.
Bridge(c) == ctr[c] # Nil /\ \E cfg \in ConfigsOf[c] : cfg.nets # {}

NetworkConnect(c, net) ==
    /\ Bridge(c)
    /\ net \notin ctrNets[c]
    /\ ctrNets' = [ctrNets EXCEPT ![c] = @ \cup {net}]
    /\ UNCHANGED <<ids, names, allCtrs, ctr, ctrDeps, ctrExec, podBkt, allPods,
                   podCtrs, allVols, volDeps, exec, exitCodes, mem>>

NetworkDisconnect(c, net) ==
    /\ Bridge(c)
    /\ net \in ctrNets[c]
    /\ ctrNets' = [ctrNets EXCEPT ![c] = @ \ {net}]
    /\ UNCHANGED <<ids, names, allCtrs, ctr, ctrDeps, ctrExec, podBkt, allPods,
                   podCtrs, allVols, volDeps, exec, exitCodes, mem>>

---------------------------------------------------------------------------
AddPodAccepted(p, n) == ids[p] = Nil /\ names[n] = Nil

AddPod(p, n) ==
    /\ AddPodAccepted(p, n)
    /\ podBkt' = podBkt \cup {p}
    /\ podCtrs' = [podCtrs EXCEPT ![p] = [c \in Ctrs |-> Nil]]
    /\ ids' = [ids EXCEPT ![p] = n]
    /\ names' = [names EXCEPT ![n] = p]
    /\ allPods' = [allPods EXCEPT ![p] = n]
    /\ UNCHANGED <<allCtrs, ctr, ctrDeps, ctrExec, ctrNets, allVols, volDeps,
                   exec, exitCodes, mem>>

\* A pod's name never changes, so the copy in memory has the right one.
RemovePodAccepted(p) == p \in podBkt /\ InPod(p) = {}

RemovePod(p) ==
    /\ RemovePodAccepted(p)
    /\ ids' = [ids EXCEPT ![p] = Nil]
    /\ names' = [names EXCEPT ![allPods[p]] = Nil]
    /\ allPods' = [allPods EXCEPT ![p] = Nil]
    /\ podBkt' = podBkt \ {p}
    /\ UNCHANGED <<allCtrs, ctr, ctrDeps, ctrExec, ctrNets, podCtrs, allVols,
                   volDeps, exec, exitCodes, mem>>

\* Called by removeMalformedPod only, when removeContainer has removed the exec
\* sessions of every container of the pod.
NoSessions(p) == \A c \in InPod(p) : ctrExec[c] = {}

RemovePodContainersAccepted(p) ==
    /\ p \in podBkt
    /\ \A c \in InPod(p) : ctr[c] # Nil /\ ctrDeps[c] \subseteq InPod(p)

RemovePodContainers(p) ==
    /\ NoSessions(p)
    /\ RemovePodContainersAccepted(p)
    /\ LET gone == InPod(p)
           freed == {podCtrs[p][c] : c \in gone}
       IN  /\ ctr' = [c \in Ctrs |-> IF c \in gone THEN Nil ELSE ctr[c]]
           /\ ids' = [i \in IDs |-> IF i \in gone THEN Nil ELSE ids[i]]
           /\ names' = [n \in Names |-> IF n \in freed THEN Nil ELSE names[n]]
           /\ allCtrs' = [c \in Ctrs |-> IF c \in gone THEN Nil ELSE allCtrs[c]]
           /\ ctrDeps' = [c \in Ctrs |-> IF c \in gone THEN {} ELSE ctrDeps[c]]
           /\ ctrNets' = [c \in Ctrs |-> IF c \in gone THEN {} ELSE ctrNets[c]]
           /\ mem' = [c \in Ctrs |-> IF c \in gone THEN Nil ELSE mem[c]]
    /\ podCtrs' = [podCtrs EXCEPT ![p] = [c \in Ctrs |-> Nil]]
    /\ UNCHANGED <<ctrExec, podBkt, allPods, allVols, volDeps, exec, exitCodes>>

---------------------------------------------------------------------------
AddVolume(v) ==
    /\ v \notin allVols
    /\ allVols' = allVols \cup {v}
    /\ volDeps' = [volDeps EXCEPT ![v] = {}]
    /\ UNCHANGED <<ids, names, allCtrs, ctr, ctrDeps, ctrExec, ctrNets, podBkt,
                   allPods, podCtrs, exec, exitCodes, mem>>

\* The containers of the dependencies bucket that still exist.
VolumeInUse(v) == {c \in volDeps[v] : ctr[c] # Nil}

RemoveVolumeAccepted(v) == v \in allVols /\ VolumeInUse(v) = {}

RemoveVolume(v) ==
    /\ RemoveVolumeAccepted(v)
    /\ allVols' = allVols \ {v}
    /\ volDeps' = [volDeps EXCEPT ![v] = {}]
    /\ UNCHANGED <<ids, names, allCtrs, ctr, ctrDeps, ctrExec, ctrNets, podBkt,
                   allPods, podCtrs, exec, exitCodes, mem>>

---------------------------------------------------------------------------
AddExecSession(c, s) ==
    /\ ctr[c] # Nil
    /\ exec[s] = Nil
    /\ exec' = [exec EXCEPT ![s] = c]
    /\ ctrExec' = [ctrExec EXCEPT ![c] = @ \cup {s}]
    /\ UNCHANGED <<ids, names, allCtrs, ctr, ctrDeps, ctrNets, podBkt, allPods,
                   podCtrs, allVols, volDeps, exitCodes, mem>>

\* A plausible bug: the session stays in its container's exec bucket.
RemoveExecSessionKeepsKey(s) ==
    /\ exec[s] # Nil
    /\ exec' = [exec EXCEPT ![s] = Nil]
    /\ UNCHANGED <<ids, names, allCtrs, ctr, ctrDeps, ctrExec, ctrNets, podBkt,
                   allPods, podCtrs, allVols, volDeps, exitCodes, mem>>

RemoveExecSession(s) ==
    /\ exec[s] # Nil
    /\ exec' = [exec EXCEPT ![s] = Nil]
    /\ ctrExec' = IF ctr[exec[s]] = Nil THEN ctrExec
                  ELSE [ctrExec EXCEPT ![exec[s]] = @ \ {s}]
    /\ UNCHANGED <<ids, names, allCtrs, ctr, ctrDeps, ctrNets, podBkt, allPods,
                   podCtrs, allVols, volDeps, exitCodes, mem>>

\* A session registered for another container makes the whole call fail.
RemoveContainerExecSessions(c) ==
    /\ ctr[c] # Nil
    /\ \A s \in ctrExec[c] : exec[s] \in {Nil, c}
    /\ ctrExec' = [ctrExec EXCEPT ![c] = {}]
    /\ exec' = [s \in Sessions |-> IF s \in ctrExec[c] THEN Nil ELSE exec[s]]
    /\ UNCHANGED <<ids, names, allCtrs, ctr, ctrDeps, ctrNets, podBkt, allPods,
                   podCtrs, allVols, volDeps, exitCodes, mem>>

---------------------------------------------------------------------------
AddContainerExitCode(c) ==
    /\ exitCodes' = exitCodes \cup {c}
    /\ UNCHANGED <<ids, names, allCtrs, ctr, ctrDeps, ctrExec, ctrNets, podBkt,
                   allPods, podCtrs, allVols, volDeps, exec, mem>>

\* A plausible bug: the code of a container that still exists is pruned too.
PruneAllExitCodes ==
    /\ \E old \in SUBSET exitCodes : exitCodes' = exitCodes \ old
    /\ UNCHANGED <<ids, names, allCtrs, ctr, ctrDeps, ctrExec, ctrNets, podBkt,
                   allPods, podCtrs, allVols, volDeps, exec, mem>>

\* Which codes are older than five minutes is not modelled: any may be.
PruneContainerExitCodes ==
    /\ \E old \in SUBSET exitCodes :
           exitCodes' = exitCodes \ {c \in old : ctr[c] = Nil}
    /\ UNCHANGED <<ids, names, allCtrs, ctr, ctrDeps, ctrExec, ctrNets, podBkt,
                   allPods, podCtrs, allVols, volDeps, exec, mem>>

\* After a reboot: no process of before holds a copy.  An ID that is neither a
\* container nor a pod is dropped from both registries.
Refresh ==
    /\ LET dangling == {i \in IDs : /\ ids[i] # Nil
                                    /\ i \notin podBkt
                                    /\ i \in Ctrs => ctr[i] = Nil}
       IN  /\ ids' = [i \in IDs |-> IF i \in dangling THEN Nil ELSE ids[i]]
           /\ names' = [n \in Names |-> IF n \in {ids[i] : i \in dangling}
                                        THEN Nil ELSE names[n]]
    /\ exitCodes' = {}
    /\ exec' = [s \in Sessions |-> Nil]
    /\ ctrExec' = [c \in Ctrs |-> {}]
    /\ mem' = [c \in Ctrs |-> Nil]
    /\ UNCHANGED <<allCtrs, ctr, ctrDeps, ctrNets, podBkt, allPods, podCtrs,
                   allVols, volDeps>>

BoltNext ==
    \/ \E c \in Ctrs :
          \/ \E cfg \in ConfigsOf[c] : AddContainer(c, cfg)
          \/ Load(c) \/ RemoveContainer(c) \/ Update(c)
          \/ \E n \in Names : SafeRewriteContainerConfig(c, n)
          \/ \E net \in Nets : NetworkConnect(c, net) \/ NetworkDisconnect(c, net)
          \/ \E s \in Sessions : AddExecSession(c, s)
          \/ RemoveContainerExecSessions(c)
          \/ AddContainerExitCode(c)
    \/ \E p \in Pods : \/ \E n \in Names : AddPod(p, n)
                       \/ RemovePod(p) \/ RemovePodContainers(p)
    \/ \E v \in Vols : AddVolume(v) \/ RemoveVolume(v)
    \/ \E s \in Sessions : RemoveExecSession(s)
    \/ PruneContainerExitCodes \/ Refresh

BoltSpec == BoltInit /\ [][BoltNext]_boltVars

---------------------------------------------------------------------------
\* What the readers of the buckets answer.
LookupContainerID(n) ==
    IF names[n] \in Ctrs /\ ctr[names[n]] # Nil THEN names[n] ELSE Nil

GetContainerName(c) == IF ctr[c] = Nil THEN Nil ELSE ids[c]

AllContainers == {c \in Ctrs : allCtrs[c] # Nil /\ ctr[c] # Nil}

---------------------------------------------------------------------------
\* The database as state.go sees it.
Config(c) == IF ctr[c] = Nil THEN Nil
             ELSE [name |-> ctr[c].name, pod |-> ctr[c].pod, deps |-> ctr[c].deps,
                   vols |-> ctr[c].vols, nets |-> ctrNets[c]]

Abs == INSTANCE State WITH ctrs <- [c \in Ctrs |-> Config(c)], pods <- allPods,
                           vols <- allVols, execs <- exec, codes <- exitCodes

\* Every call of BoltState that succeeds does what state.go says the call does,
\* to all the buckets it concerns, and a call that is not about an object
\* leaves that object alone.
ImplementsState == Abs!StateSpec

\* The redundant buckets answer as the container's own config would: the name
\* registry and the list of names find exactly the containers of that name,
\* the dependencies buckets hold exactly the dependents and the pods' buckets
\* exactly the members, and a volume's bucket misses none of its users (it may
\* name a container that was removed and created again without the volume).
ReadsAgree ==
    /\ \A n \in Names, c \in Ctrs :
          LookupContainerID(n) = c <=> Abs!Has(c) /\ Config(c).name = n
    /\ \A c \in Ctrs : /\ GetContainerName(c) = IF Abs!Has(c) THEN Config(c).name
                                                                ELSE Nil
                       /\ ctrDeps[c] = Abs!Dependents(c)
                       /\ ctrExec[c] = Abs!SessionsOf(c)
    /\ AllContainers = {c \in Ctrs : Abs!Has(c)}
    /\ \A p \in Pods : InPod(p) = Abs!Members(p)
    /\ \A v \in Vols : Abs!Users(v) \subseteq VolumeInUse(v)

\* BoltState accepts a call exactly when state.go lets it succeed, with a name
\* a pod has taken refused to a container and the reverse; a volume that is in
\* use is never removed.
AcceptsAsStateSays ==
    /\ \A c \in Ctrs :
          /\ \A cfg \in ConfigsOf[c] : AddContainerAccepted(c, cfg) <=>
                Abs!AddContainerOK(c, cfg) /\ ~Abs!PodNamed(cfg.name)
          /\ RemoveContainerAccepted(c) <=> Abs!RemoveContainerOK(c)
          /\ \A n \in Names : RenameAccepted(c, n) <=>
                Abs!RenameOK(c, n) /\ ~Abs!PodNamed(n)
    /\ \A p \in Pods :
          /\ \A n \in Names : AddPodAccepted(p, n) <=>
                Abs!AddPodOK(p, n) /\ ~Abs!NameTaken(n)
          /\ RemovePodAccepted(p) <=> Abs!RemovePodOK(p)
          /\ RemovePodContainersAccepted(p) <=> allPods[p] # Nil
    /\ \A v \in Vols : RemoveVolumeAccepted(v) => Abs!RemoveVolumeOK(v)
=============================================================================
