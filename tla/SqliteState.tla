---------------------------- MODULE SqliteState ----------------------------
(***************************************************************************)
(* The SQLite backend (libpod/sqlite_state.go, sqlite_state_internal.go).  *)
(* The tables are related by foreign keys, some of them checked by each    *)
(* statement and some only when the transaction commits; the code relies   *)
(* on them for much of what BoltState checks itself.  A method that fails  *)
(* is rolled back.                                                         *)
(***************************************************************************)
CONSTANTS Ctrs, Pods, Vols, Names, Sessions, Nets, Nil,
          ConfigsOf,    \* container ID -> the configurations it is created with
          StaleCopies   \* may a process write with a copy it read long ago?

VARIABLES IDNamespace,           \* container and pod IDs
          ContainerConfig,       \* ID -> [name, pod, deps, vols, nets], or Nil
          rowOrder,              \* <<c, d>>: a scan of ContainerConfig meets c before d
          ContainerStateRows,    \* IDs
          ContainerDependency,   \* <<ID, DependencyID>>
          ContainerVolume,       \* <<ContainerID, VolumeName>>
          ContainerExecSession,  \* session ID -> ContainerID, or Nil
          ContainerExitCode,     \* IDs
          PodConfig,             \* ID -> Name, or Nil
          PodStateRows,          \* IDs
          VolumeConfig,          \* names
          VolumeStateRows,       \* names
          copy                   \* ID -> name and networks in the Container
                                 \* struct some process holds, or Nil

ctrTables == <<IDNamespace, ContainerConfig, rowOrder, ContainerStateRows,
               ContainerDependency, ContainerVolume>>
podTables == <<PodConfig, PodStateRows>>
volTables == <<VolumeConfig, VolumeStateRows>>
sqliteVars == <<ctrTables, podTables, volTables, ContainerExecSession,
                ContainerExitCode, copy>>

SqliteInit ==
    /\ IDNamespace = {}
    /\ ContainerConfig = [c \in Ctrs |-> Nil]
    /\ rowOrder = {}
    /\ ContainerStateRows = {}
    /\ ContainerDependency = {}
    /\ ContainerVolume = {}
    /\ ContainerExecSession = [s \in Sessions |-> Nil]
    /\ ContainerExitCode = {}
    /\ PodConfig = [p \in Pods |-> Nil]
    /\ PodStateRows = {}
    /\ VolumeConfig = {}
    /\ VolumeStateRows = {}
    /\ copy = [c \in Ctrs |-> Nil]

Row(c) == ContainerConfig[c] # Nil

\* The UNIQUE constraint on ContainerConfig.Name, and the SELECT before it.
NameInUse(n) == \E c \in Ctrs : Row(c) /\ ContainerConfig[c].name = n

PodContainersByID(p) == {c \in Ctrs : Row(c) /\ ContainerConfig[c].pod = p}

ContainerInUse(c) == {d \in Ctrs : <<d, c>> \in ContainerDependency}

VolumeInUse(v) == {c \in Ctrs : <<c, v>> \in ContainerVolume}

GetContainerExecSessions(c) == {s \in Sessions : ContainerExecSession[s] = c}

---------------------------------------------------------------------------
\* A plausible bug: the pod of a dependency is not compared.
AddContainerAnyPod(c, cfg) ==
    /\ ~NameInUse(cfg.name)
    /\ c \notin IDNamespace
    /\ cfg.pod # Nil => PodConfig[cfg.pod] # Nil
    /\ \A d \in cfg.deps : Row(d)
    /\ cfg.vols \subseteq VolumeConfig

AddContainerAccepted(c, cfg) ==
    /\ ~NameInUse(cfg.name)
    /\ c \notin IDNamespace
    /\ cfg.pod # Nil => PodConfig[cfg.pod] # Nil
    /\ \A d \in cfg.deps : Row(d) /\ ContainerConfig[d].pod = cfg.pod
    /\ cfg.vols \subseteq VolumeConfig

AddContainer(c, cfg) ==
    /\ AddContainerAccepted(c, cfg)
    /\ IDNamespace' = IDNamespace \cup {c}
    /\ ContainerConfig' = [ContainerConfig EXCEPT ![c] = cfg]
    /\ rowOrder' = rowOrder \cup ({d \in Ctrs : Row(d)} \X {c})
    /\ ContainerStateRows' = ContainerStateRows \cup {c}
    /\ ContainerDependency' = ContainerDependency \cup ({c} \X cfg.deps)
    /\ ContainerVolume' = ContainerVolume \cup ({c} \X cfg.vols)
    /\ copy' = [copy EXCEPT ![c] = [name |-> cfg.name, nets |-> cfg.nets]]
    /\ UNCHANGED <<podTables, volTables, ContainerExecSession, ContainerExitCode>>

Load(c) ==
    /\ Row(c)
    /\ copy' = [copy EXCEPT ![c] = [name |-> ContainerConfig[c].name,
                                    nets |-> ContainerConfig[c].nets]]
    /\ UNCHANGED <<ctrTables, podTables, volTables, ContainerExecSession,
                   ContainerExitCode>>

\* As in BoltState: a Container struct keeps the config it was loaded with.
Usable(c) ==
    /\ copy[c] # Nil
    /\ StaleCopies \/ (Row(c) => copy[c] = [name |-> ContainerConfig[c].name,
                                            nets |-> ContainerConfig[c].nets])

\* A plausible bug: the rows of ContainerVolume are left behind.
DropContainersNotVolumes(gone) ==
    /\ IDNamespace' = IDNamespace \ gone
    /\ ContainerConfig' = [c \in Ctrs |-> IF c \in gone THEN Nil ELSE ContainerConfig[c]]
    /\ rowOrder' = {r \in rowOrder : r[1] \notin gone /\ r[2] \notin gone}
    /\ ContainerStateRows' = ContainerStateRows \ gone
    /\ ContainerDependency' = {r \in ContainerDependency : r[1] \notin gone}
    /\ copy' = [c \in Ctrs |-> IF c \in gone THEN Nil ELSE copy[c]]
    /\ UNCHANGED ContainerVolume

\* removeContainerWithTx for the containers of gone: every row that names them.
DropContainers(gone) ==
    /\ IDNamespace' = IDNamespace \ gone
    /\ ContainerConfig' = [c \in Ctrs |-> IF c \in gone THEN Nil ELSE ContainerConfig[c]]
    /\ rowOrder' = {r \in rowOrder : r[1] \notin gone /\ r[2] \notin gone}
    /\ ContainerStateRows' = ContainerStateRows \ gone
    /\ ContainerDependency' = {r \in ContainerDependency : r[1] \notin gone}
    /\ ContainerVolume' = {r \in ContainerVolume : r[1] \notin gone}
    /\ copy' = [c \in Ctrs |-> IF c \in gone THEN Nil ELSE copy[c]]

\* DELETE FROM ContainerConfig fails while a row of ContainerDependency or of
\* ContainerExecSession refers to the container: these two keys are not
\* deferred.  The rows the container owns itself go in later statements.
RemoveContainerAccepted(c) ==
    ContainerInUse(c) = {} /\ GetContainerExecSessions(c) = {}

RemoveContainer(c) ==
    /\ Usable(c)
    /\ RemoveContainerAccepted(c)
    /\ DropContainers({c})
    /\ UNCHANGED <<podTables, volTables, ContainerExecSession, ContainerExitCode>>

---------------------------------------------------------------------------
RewriteAccepted(c, n) ==
    Row(c) /\ (ContainerConfig[c].name = n \/ ~NameInUse(n))

\* Name and JSON are written together.
rewriteContainerConfig(c, n, nets) ==
    /\ RewriteAccepted(c, n)
    /\ ContainerConfig' = [ContainerConfig EXCEPT ![c].name = n, ![c].nets = nets]
    /\ UNCHANGED <<IDNamespace, rowOrder, ContainerStateRows, ContainerDependency,
                   ContainerVolume, podTables, volTables, ContainerExecSession,
                   ContainerExitCode>>

\* A plausible bug: the config is not read again before it is written.
RenameFromCopy(c, n) ==
    /\ copy[c] # Nil
    /\ rewriteContainerConfig(c, n, copy[c].nets)
    /\ copy' = [copy EXCEPT ![c].name = n]

\* RenameContainer reads the config again and rewrites it with the new name.
\* The copy is the renaming process's, or one another process keeps.
Rename(c, n) ==
    /\ Row(c)
    /\ rewriteContainerConfig(c, n, ContainerConfig[c].nets)
    /\ copy' \in {copy, [copy EXCEPT ![c] = [name |-> n, nets |-> ContainerConfig[c].nets]]}

\* update and refresh write back the whole config they hold in memory.
Update(c) ==
    /\ Usable(c)
    /\ rewriteContainerConfig(c, copy[c].name, copy[c].nets)
    /\ UNCHANGED copy

\* networkModify, on bridge containers.  The networks are part of the config.
Bridge(c) == Row(c) /\ \E cfg \in ConfigsOf[c] : cfg.nets # {}

networkModify(c, nets) ==
    /\ rewriteContainerConfig(c, ContainerConfig[c].name, nets)
    /\ copy' \in {copy, [copy EXCEPT ![c] = [name |-> ContainerConfig[c].name,
                                            nets |-> nets]]}

NetworkConnect(c, net) ==
    /\ Bridge(c) /\ net \notin ContainerConfig[c].nets
    /\ networkModify(c, ContainerConfig[c].nets \cup {net})

NetworkDisconnect(c, net) ==
    /\ Bridge(c) /\ net \in ContainerConfig[c].nets
    /\ networkModify(c, ContainerConfig[c].nets \ {net})

---------------------------------------------------------------------------
AddPodAccepted(p, n) == p \notin IDNamespace /\ \A q \in Pods : PodConfig[q] # n

AddPod(p, n) ==
    /\ AddPodAccepted(p, n)
    /\ IDNamespace' = IDNamespace \cup {p}
    /\ PodConfig' = [PodConfig EXCEPT ![p] = n]
    /\ PodStateRows' = PodStateRows \cup {p}
    /\ UNCHANGED <<ContainerConfig, rowOrder, ContainerStateRows, ContainerDependency,
                   ContainerVolume, volTables, ContainerExecSession,
                   ContainerExitCode, copy>>

\* A container of the pod is found by the SELECT; the infra container, which the
\* SELECT leaves out, makes DELETE FROM PodConfig fail.  Each of the three
\* DELETEs has to hit a row.
RemovePodAccepted(p) ==
    /\ PodContainersByID(p) = {}
    /\ p \in IDNamespace /\ PodConfig[p] # Nil /\ p \in PodStateRows

RemovePod(p) ==
    /\ RemovePodAccepted(p)
    /\ IDNamespace' = IDNamespace \ {p}
    /\ PodConfig' = [PodConfig EXCEPT ![p] = Nil]
    /\ PodStateRows' = PodStateRows \ {p}
    /\ UNCHANGED <<ContainerConfig, rowOrder, ContainerStateRows, ContainerDependency,
                   ContainerVolume, volTables, ContainerExecSession,
                   ContainerExitCode, copy>>

\* One container after the other, in the order of the rows: a row is only
\* deleted when the rows that depend on it have been.
RemovePodContainersAccepted(p) ==
    \A c \in PodContainersByID(p) :
        /\ GetContainerExecSessions(c) = {}
        /\ \A d \in ContainerInUse(c) : d \in PodContainersByID(p) /\ <<d, c>> \in rowOrder

RemovePodContainers(p) ==
    /\ PodConfig[p] # Nil
    /\ RemovePodContainersAccepted(p)
    /\ DropContainers(PodContainersByID(p))
    /\ UNCHANGED <<podTables, volTables, ContainerExecSession, ContainerExitCode>>

---------------------------------------------------------------------------
AddVolume(v) ==
    /\ v \notin VolumeConfig
    /\ VolumeConfig' = VolumeConfig \cup {v}
    /\ VolumeStateRows' = VolumeStateRows \cup {v}
    /\ UNCHANGED <<ctrTables, podTables, ContainerExecSession, ContainerExitCode, copy>>

RemoveVolumeAccepted(v) == VolumeInUse(v) = {}

RemoveVolume(v) ==
    /\ RemoveVolumeAccepted(v)
    /\ VolumeConfig' = VolumeConfig \ {v}
    /\ VolumeStateRows' = VolumeStateRows \ {v}
    /\ UNCHANGED <<ctrTables, podTables, ContainerExecSession, ContainerExitCode, copy>>

---------------------------------------------------------------------------
AddExecSession(c, s) ==
    /\ Row(c) /\ ContainerExecSession[s] = Nil
    /\ ContainerExecSession' = [ContainerExecSession EXCEPT ![s] = c]
    /\ UNCHANGED <<ctrTables, podTables, volTables, ContainerExitCode, copy>>

RemoveExecSession(s) ==
    /\ ContainerExecSession[s] # Nil
    /\ ContainerExecSession' = [ContainerExecSession EXCEPT ![s] = Nil]
    /\ UNCHANGED <<ctrTables, podTables, volTables, ContainerExitCode, copy>>

RemoveContainerExecSessions(c) ==
    /\ ContainerExecSession' = [s \in Sessions |-> IF ContainerExecSession[s] = c
                                  THEN Nil ELSE ContainerExecSession[s]]
    /\ UNCHANGED <<ctrTables, podTables, volTables, ContainerExitCode, copy>>

---------------------------------------------------------------------------
AddContainerExitCode(c) ==
    /\ ContainerExitCode' = ContainerExitCode \cup {c}
    /\ UNCHANGED <<ctrTables, podTables, volTables, ContainerExecSession, copy>>

PruneContainerExitCodes ==
    /\ \E old \in SUBSET ContainerExitCode :
           ContainerExitCode' = ContainerExitCode \ {c \in old : ~Row(c)}
    /\ UNCHANGED <<ctrTables, podTables, volTables, ContainerExecSession, copy>>

Refresh ==
    /\ ContainerExitCode' = {}
    /\ ContainerExecSession' = [s \in Sessions |-> Nil]
    /\ copy' = [c \in Ctrs |-> Nil]
    /\ UNCHANGED <<ctrTables, podTables, volTables>>

SqliteNext ==
    \/ \E c \in Ctrs :
          \/ \E cfg \in ConfigsOf[c] : AddContainer(c, cfg)
          \/ Load(c) \/ RemoveContainer(c) \/ Update(c)
          \/ \E n \in Names : Rename(c, n)
          \/ \E net \in Nets : NetworkConnect(c, net) \/ NetworkDisconnect(c, net)
          \/ \E s \in Sessions : AddExecSession(c, s)
          \/ RemoveContainerExecSessions(c)
          \/ AddContainerExitCode(c)
    \/ \E p \in Pods : \/ \E n \in Names : AddPod(p, n)
                       \/ RemovePod(p) \/ RemovePodContainers(p)
    \/ \E v \in Vols : AddVolume(v) \/ RemoveVolume(v)
    \/ \E s \in Sessions : RemoveExecSession(s)
    \/ PruneContainerExitCodes \/ Refresh

SqliteSpec == SqliteInit /\ [][SqliteNext]_sqliteVars

---------------------------------------------------------------------------
Abs == INSTANCE State WITH ctrs <- ContainerConfig, pods <- PodConfig,
                           vols <- VolumeConfig, execs <- ContainerExecSession,
                           codes <- ContainerExitCode

\* Every call of SqliteState that succeeds does what state.go says the call
\* does, and nothing else.
ImplementsState == Abs!StateSpec

\* What each statement leaves to the end of the transaction holds at every
\* commit: the deferred foreign keys of createSQLiteTables (the code would
\* fail in Commit otherwise, after its own checks had passed), and the rows
\* the code keeps in step without a key: the dependencies and volumes listed
\* in a container's JSON are the rows of the two relation tables.
ForeignKeys ==
    /\ IDNamespace = {c \in Ctrs : Row(c)} \cup {p \in Pods : PodConfig[p] # Nil}
    /\ ContainerStateRows = {c \in Ctrs : Row(c)}
    /\ PodStateRows = {p \in Pods : PodConfig[p] # Nil}
    /\ VolumeStateRows = VolumeConfig
    /\ \A c \in Ctrs : Row(c) =>
          /\ ContainerConfig[c].pod # Nil => PodConfig[ContainerConfig[c].pod] # Nil
          /\ ContainerConfig[c].deps = {r[2] : r \in {q \in ContainerDependency : q[1] = c}}
          /\ ContainerConfig[c].vols = {r[2] : r \in {q \in ContainerVolume : q[1] = c}}
    /\ \A r \in ContainerDependency : Row(r[1]) /\ Row(r[2])
    /\ \A r \in ContainerVolume : Row(r[1]) /\ r[2] \in VolumeConfig
    /\ \A s \in Sessions : ContainerExecSession[s] # Nil => Row(ContainerExecSession[s])

\* SqliteState accepts a call exactly when state.go lets it succeed.  Removing
\* what is not there succeeds too, and does nothing; RemovePodContainers is left
\* out, which SqliteState refuses when a container of the pod is needed by a
\* later row, where state.go only says that the dependencies must be in the pod.
AcceptsAsStateSays ==
    /\ \A c \in Ctrs :
          /\ \A cfg \in ConfigsOf[c] :
                AddContainerAccepted(c, cfg) <=> Abs!AddContainerOK(c, cfg)
          /\ Row(c) => (RemoveContainerAccepted(c) <=> Abs!RemoveContainerOK(c))
          /\ \A n \in Names : RewriteAccepted(c, n) <=> Abs!RenameOK(c, n)
    /\ \A p \in Pods :
          /\ \A n \in Names : AddPodAccepted(p, n) <=> Abs!AddPodOK(p, n)
          /\ RemovePodAccepted(p) <=> Abs!RemovePodOK(p)
    /\ \A v \in VolumeConfig : RemoveVolumeAccepted(v) <=> Abs!RemoveVolumeOK(v)
=============================================================================
