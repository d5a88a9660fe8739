------------------------------- MODULE State -------------------------------
(***************************************************************************)
(* What libpod/state.go asks of a database backend: the calls that add,    *)
(* remove and rewrite containers, pods, volumes and exec sessions, when    *)
(* each of them is to be accepted, and what it changes.  BoltState and     *)
(* SqliteState are the two backends.                                       *)
(*                                                                         *)
(* A call the database turns down is rolled back and changes nothing, so   *)
(* each call here is a pair: the condition under which state.go lets it    *)
(* succeed, and the action it then is.                                     *)
(***************************************************************************)
CONSTANTS Ctrs, Pods,    \* container IDs and pod IDs
          Vols,          \* volume names
          Names,         \* names of containers and pods
          Sessions,      \* exec session IDs
          Nets,          \* network names
          ConfigsOf,     \* container ID -> the configurations it is created with
          Nil

VARIABLES ctrs,          \* container ID -> its configuration, or Nil
          pods,          \* pod ID -> its name, or Nil
          vols,          \* the volumes
          execs,         \* exec session -> the container it belongs to, or Nil
          codes          \* the containers whose exit code is recorded

stateVars == <<ctrs, pods, vols, execs, codes>>

StateInit ==
    /\ ctrs = [c \in Ctrs |-> Nil]
    /\ pods = [p \in Pods |-> Nil]
    /\ vols = {}
    /\ execs = [s \in Sessions |-> Nil]
    /\ codes = {}

Has(c) == ctrs[c] # Nil

Dependents(c) == {d \in Ctrs : Has(d) /\ c \in ctrs[d].deps}

Members(p) == {c \in Ctrs : Has(c) /\ ctrs[c].pod = p}

Users(v) == {c \in Ctrs : Has(c) /\ v \in ctrs[c].vols}

SessionsOf(c) == {s \in Sessions : execs[s] = c}

\* "The container must have globally unique name and ID": among containers.
NameTaken(n) == \E c \in Ctrs : Has(c) /\ ctrs[c].name = n

\* "pod names and IDs also conflict with container names and IDs": BoltState
\* refuses such a name, SqliteState does not, so the contract both keep leaves
\* it open.
PodNamed(n) == \E p \in Pods : pods[p] = n

AddContainerOK(c, cfg) ==
    /\ ~Has(c) /\ ~NameTaken(cfg.name)
    /\ cfg.pod # Nil => pods[cfg.pod] # Nil
    /\ \A d \in cfg.deps : Has(d) /\ ctrs[d].pod = cfg.pod
    /\ cfg.vols \subseteq vols

AddContainer(c, cfg) ==
    /\ AddContainerOK(c, cfg)
    /\ ctrs' = [ctrs EXCEPT ![c] = cfg]
    /\ UNCHANGED <<pods, vols, execs, codes>>

RemoveContainerOK(c) == Has(c) /\ Dependents(c) = {} /\ SessionsOf(c) = {}

RemoveContainer(c) ==
    /\ RemoveContainerOK(c)
    /\ ctrs' = [ctrs EXCEPT ![c] = Nil]
    /\ UNCHANGED <<pods, vols, execs, codes>>

RenameOK(c, n) == Has(c) /\ (ctrs[c].name = n \/ ~NameTaken(n))

Rename(c, n) ==
    /\ RenameOK(c, n)
    /\ ctrs' = [ctrs EXCEPT ![c].name = n]
    /\ UNCHANGED <<pods, vols, execs, codes>>

NetworkConnectOK(c, net) == Has(c) /\ net \notin ctrs[c].nets

NetworkConnect(c, net) ==
    /\ NetworkConnectOK(c, net)
    /\ ctrs' = [ctrs EXCEPT ![c].nets = @ \cup {net}]
    /\ UNCHANGED <<pods, vols, execs, codes>>

NetworkDisconnectOK(c, net) == Has(c) /\ net \in ctrs[c].nets

NetworkDisconnect(c, net) ==
    /\ NetworkDisconnectOK(c, net)
    /\ ctrs' = [ctrs EXCEPT ![c].nets = @ \ {net}]
    /\ UNCHANGED <<pods, vols, execs, codes>>

AddPodOK(p, n) == pods[p] = Nil /\ ~PodNamed(n)

AddPod(p, n) ==
    /\ AddPodOK(p, n)
    /\ pods' = [pods EXCEPT ![p] = n]
    /\ UNCHANGED <<ctrs, vols, execs, codes>>

\* "Only empty pods can be removed from the state."
RemovePodOK(p) == pods[p] # Nil /\ Members(p) = {}

RemovePod(p) ==
    /\ RemovePodOK(p)
    /\ pods' = [pods EXCEPT ![p] = Nil]
    /\ UNCHANGED <<ctrs, vols, execs, codes>>

RemovePodContainers(p) ==
    /\ pods[p] # Nil
    /\ ctrs' = [c \in Ctrs |-> IF c \in Members(p) THEN Nil ELSE ctrs[c]]
    /\ UNCHANGED <<pods, vols, execs, codes>>

AddVolume(v) ==
    /\ v \notin vols
    /\ vols' = vols \cup {v}
    /\ UNCHANGED <<ctrs, pods, execs, codes>>

\* "Only volumes that have no container dependencies can be removed."
RemoveVolumeOK(v) == v \in vols /\ Users(v) = {}

RemoveVolume(v) ==
    /\ RemoveVolumeOK(v)
    /\ vols' = vols \ {v}
    /\ UNCHANGED <<ctrs, pods, execs, codes>>

AddExecSession(c, s) ==
    /\ Has(c) /\ execs[s] = Nil
    /\ execs' = [execs EXCEPT ![s] = c]
    /\ UNCHANGED <<ctrs, pods, vols, codes>>

RemoveExecSession(s) ==
    /\ execs[s] # Nil
    /\ execs' = [execs EXCEPT ![s] = Nil]
    /\ UNCHANGED <<ctrs, pods, vols, codes>>

RemoveContainerExecSessions(c) ==
    /\ execs' = [s \in Sessions |-> IF execs[s] = c THEN Nil ELSE execs[s]]
    /\ UNCHANGED <<ctrs, pods, vols, codes>>

AddContainerExitCode(c) ==
    /\ codes' = codes \cup {c}
    /\ UNCHANGED <<ctrs, pods, vols, execs>>

\* The codes older than five minutes, if their container is gone.
PruneContainerExitCodes ==
    /\ codes' \in {k \in SUBSET codes : \A c \in codes \ k : ~Has(c)}
    /\ UNCHANGED <<ctrs, pods, vols, execs>>

Refresh ==
    /\ execs' = [s \in Sessions |-> Nil]
    /\ codes' = {}
    /\ UNCHANGED <<ctrs, pods, vols>>

StateNext ==
    \/ \E c \in Ctrs : \/ \E cfg \in ConfigsOf[c] : AddContainer(c, cfg)
                       \/ RemoveContainer(c)
                       \/ \E n \in Names : Rename(c, n)
                       \/ \E net \in Nets : \/ NetworkConnect(c, net)
                                            \/ NetworkDisconnect(c, net)
                       \/ \E s \in Sessions : AddExecSession(c, s)
                       \/ RemoveContainerExecSessions(c)
                       \/ AddContainerExitCode(c)
    \/ \E p \in Pods : \/ \E n \in Names : AddPod(p, n)
                       \/ RemovePod(p) \/ RemovePodContainers(p)
    \/ \E v \in Vols : AddVolume(v) \/ RemoveVolume(v)
    \/ \E s \in Sessions : RemoveExecSession(s)
    \/ PruneContainerExitCodes \/ Refresh

StateSpec == StateInit /\ [][StateNext]_stateVars
=============================================================================
