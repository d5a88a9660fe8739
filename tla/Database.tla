------------------------------ MODULE Database ------------------------------
(***************************************************************************)
(* The database of a libpod runtime: getDBState (runtime.go) chooses one   *)
(* of the two backends, by configuration or by the file it finds, and      *)
(* every later podman finds the same one.                                  *)
(***************************************************************************)
EXTENDS BoltState

CONSTANT Backends    \* what may be configured: a subset of {"boltdb", "sqlite"}

VARIABLES backend, IDNamespace, ContainerConfig, rowOrder, ContainerStateRows,
          ContainerDependency, ContainerVolume, ContainerExecSession,
          ContainerExitCode, PodConfig, PodStateRows, VolumeConfig,
          VolumeStateRows, copy

\* What a container may be created with, and what a process keeps of it.
Created == [name : Names, pod : Pods \cup {Nil}, deps : SUBSET Ctrs, vols : SUBSET Vols,
            nets : SUBSET Nets]
Kept == [name : Names, pod : Pods \cup {Nil}, deps : SUBSET Ctrs, vols : SUBSET Vols]
Copies == [name : Names, nets : SUBSET Nets]

\* IDs are random and unique, and Nil is none of the values it stands beside.
ASSUME DatabaseAssumption ==
    /\ \A c \in Ctrs : ConfigsOf[c] \subseteq Created
    /\ Ctrs \cap Pods = {}
    /\ Nil \notin Ctrs \cup Pods \cup Names
    /\ Nil \notin Created /\ Nil \notin Copies /\ Nil \notin Kept

tables == <<IDNamespace, ContainerConfig, rowOrder, ContainerStateRows, ContainerDependency,
            ContainerVolume, ContainerExecSession, ContainerExitCode, PodConfig, PodStateRows,
            VolumeConfig, VolumeStateRows, copy>>

Sqlite == INSTANCE SqliteState

getDBState == backend \in Backends

DatabaseInit == getDBState /\ BoltInit /\ Sqlite!SqliteInit

DatabaseNext ==
    /\ UNCHANGED backend
    /\ \/ backend = "boltdb" /\ BoltNext /\ UNCHANGED tables
       \/ backend = "sqlite" /\ Sqlite!SqliteNext /\ UNCHANGED boltVars

DatabaseSpec == DatabaseInit /\ [][DatabaseNext]_<<backend, boltVars, tables>>

\* Every call of SQLiteState that succeeds does what state.go says.
SqliteImplementsState == Sqlite!ImplementsState

\* No row names one that is not there, in any of the tables.
SqliteForeignKeys == Sqlite!ForeignKeys

\* SQLiteState accepts a call exactly when state.go lets it succeed.
SqliteAcceptsAsStateSays == Sqlite!AcceptsAsStateSays
=============================================================================
