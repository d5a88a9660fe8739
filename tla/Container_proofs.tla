--------------------------- MODULE Container_proofs ---------------------------
(***************************************************************************)
(* Theorems about Container, for any number of processes, commands and     *)
(* runs of the container: the lock, the copies and the database row, the   *)
(* resources of a running container, and whose exit file podman reads.     *)
(*                                                                         *)
(* From "What the steps of a podman process do" on, the steps are said     *)
(* once, field by field; the invariants are then shown kind of step by     *)
(* kind of step, here and in Lifecycle_proofs.                             *)
(***************************************************************************)
EXTENDS Container, TLAPS

(* Type correctness *)

\* A change to one field of a state gives a state.
LEMMA OneField ==
    ASSUME NEW s \in StateType
    PROVE  /\ \A v \in States : [s EXCEPT !.State = v] \in StateType
           /\ \A v \in 0 .. MaxRuns : [s EXCEPT !.PID = v] \in StateType
           /\ \A v \in Codes : [s EXCEPT !.ExitCode = v] \in StateType
           /\ \A v \in BOOLEAN : [s EXCEPT !.StoppedByUser = v] \in StateType
           /\ \A v \in BOOLEAN : [s EXCEPT !.RestartPolicyMatch = v] \in StateType
           /\ \A v \in Nat : [s EXCEPT !.RestartCount = v] \in StateType
           /\ \A v \in BOOLEAN : [s EXCEPT !.Mounted = v] \in StateType
           /\ \A v \in BOOLEAN : [s EXCEPT !.NetNS = v] \in StateType
<1> USE DEF StateType
<1>1. \A v \in States : [s EXCEPT !.State = v] \in StateType
  BY Zenon
<1>2. \A v \in 0 .. MaxRuns : [s EXCEPT !.PID = v] \in StateType
  BY Zenon
<1>3. \A v \in Codes : [s EXCEPT !.ExitCode = v] \in StateType
  BY Zenon
<1>4. \A v \in BOOLEAN : [s EXCEPT !.StoppedByUser = v] \in StateType
  BY Zenon
<1>5. \A v \in BOOLEAN : [s EXCEPT !.RestartPolicyMatch = v] \in StateType
  BY Zenon
<1>6. \A v \in Nat : [s EXCEPT !.RestartCount = v] \in StateType
  BY Zenon
<1>7. \A v \in BOOLEAN : [s EXCEPT !.Mounted = v] \in StateType
  BY Zenon
<1>8. \A v \in BOOLEAN : [s EXCEPT !.NetNS = v] \in StateType
  BY Zenon
<1> HIDE DEF StateType
<1>9. QED
  BY <1>1, <1>2, <1>3, <1>4, <1>5, <1>6, <1>7, <1>8, Zenon

\* The state a handle has before its first syncContainer is well typed.
LEMMA BlankState == Blank \in StateType
  BY ContainerAssumption DEF Blank, StateType, States, Codes

\* The changes to several fields that the operations make, field by field.
LEMMA SeveralFields ==
    ASSUME NEW s \in StateType, NEW n \in Nat, NEW b \in BOOLEAN, NEW c \in Codes
    PROVE  /\ [s EXCEPT !.Mounted = b, !.NetNS = b] \in StateType
           /\ [s EXCEPT !.StoppedByUser = TRUE, !.State = "Stopping"] \in StateType
           /\ [s EXCEPT !.State = "Stopped", !.ExitCode = c] \in StateType
           /\ [s EXCEPT !.State = "Stopped", !.PID = 0, !.ExitCode = c] \in StateType
           /\ [s EXCEPT !.State = "Created", !.ExitCode = 0, !.StoppedByUser = FALSE,
                        !.RestartPolicyMatch = FALSE, !.RestartCount = n] \in StateType
<1> USE OneField
<1>0. {"Stopping", "Stopped", "Created"} \subseteq States /\ 0 \in Codes /\ 0 \in 0 .. MaxRuns
  BY ContainerAssumption DEF States, Codes
<1>1. [s EXCEPT !.Mounted = b, !.NetNS = b] \in StateType
  <2> DEFINE s1 == [s EXCEPT !.Mounted = b]
  <2>1. s1 \in StateType
    BY Zenon
  <2> HIDE DEF s1
  <2>2. [s1 EXCEPT !.NetNS = b] \in StateType
    BY Zenon, <2>1
  <2>3. QED
    BY Zenon, <2>2 DEF s1
<1>2. [s EXCEPT !.StoppedByUser = TRUE, !.State = "Stopping"] \in StateType
  <2> DEFINE s1 == [s EXCEPT !.StoppedByUser = TRUE]
  <2>1. s1 \in StateType
    BY Zenon
  <2> HIDE DEF s1
  <2>2. [s1 EXCEPT !.State = "Stopping"] \in StateType
    BY Zenon, <2>1, <1>0
  <2>3. QED
    BY Zenon, <2>2 DEF s1
<1>3. /\ [s EXCEPT !.State = "Stopped", !.ExitCode = c] \in StateType
      /\ [s EXCEPT !.State = "Stopped", !.PID = 0, !.ExitCode = c] \in StateType
  <2> DEFINE s1 == [s EXCEPT !.State = "Stopped"]
             s2 == [s1 EXCEPT !.PID = 0]
  <2>1. s1 \in StateType
    BY Zenon, <1>0
  <2> HIDE DEF s1
  <2>2. s2 \in StateType
    BY Zenon, <2>1, <1>0
  <2> HIDE DEF s2
  <2>3. [s1 EXCEPT !.ExitCode = c] \in StateType /\ [s2 EXCEPT !.ExitCode = c] \in StateType
    BY Zenon, <2>1, <2>2
  <2>4. QED
    BY Zenon, <2>3 DEF s1, s2
<1>4. [s EXCEPT !.State = "Created", !.ExitCode = 0, !.StoppedByUser = FALSE,
                !.RestartPolicyMatch = FALSE, !.RestartCount = n] \in StateType
  <2> DEFINE s1 == [s EXCEPT !.State = "Created"]
             s2 == [s1 EXCEPT !.ExitCode = 0]
             s3 == [s2 EXCEPT !.StoppedByUser = FALSE]
             s4 == [s3 EXCEPT !.RestartPolicyMatch = FALSE]
  <2>1. s1 \in StateType
    BY Zenon, <1>0
  <2> HIDE DEF s1
  <2>2. s2 \in StateType
    BY Zenon, <2>1, <1>0
  <2> HIDE DEF s2
  <2>3. s3 \in StateType
    BY Zenon, <2>2
  <2> HIDE DEF s3
  <2>4. s4 \in StateType
    BY Zenon, <2>3
  <2> HIDE DEF s4
  <2>5. [s4 EXCEPT !.RestartCount = n] \in StateType
    BY Zenon, <2>4
  <2>6. QED
    BY Zenon, <2>5 DEF s1, s2, s3, s4
<1>5. QED
  BY <1>1, <1>2, <1>3, <1>4, Zenon

\* Reading the exit file and synchronising keep the type.
LEMMA ExitTypes ==
    ASSUME TypeOK, NEW s \in StateType
    PROVE  checkExitFile(s) \in StateType /\ Synced(s) \in StateType
<1>1. exitFile.code \in Codes
  BY Zenon DEF TypeOK, ExitFiles
<1>2. checkExitFile(s) \in StateType
  BY Zenon, <1>1, SeveralFields DEF checkExitFile
<1>3. (\/ s.RestartPolicyMatch
       \/ /\ SeesExit(s)
          /\ s.State \in {"Running", "Paused"}
          /\ RestartPolicy # "no"
          /\ ~s.StoppedByUser) \in BOOLEAN
  BY Zenon DEF StateType
<1>4. QED
  BY Zenon, <1>2, <1>3, OneField DEF Synced

\* What a save does to the types.
LEMMA SaveTypes ==
    ASSUME TypeOK, NEW p \in Procs, NEW s \in StateType, Save(p, s)
    PROVE  mem' \in [Procs -> StateType] /\ db' \in StateType
  BY Zenon DEF TypeOK, Save

\* An absent exit file or container, and what signals do to a container.
LEMMA NoFileNoOci == NoFile \in ExitFiles /\ NoOci \in OciType
  BY ContainerAssumption DEF NoFile, ExitFiles, Codes, NoOci, OciType

\* The runtime's view keeps its type when the OCI status changes.
LEMMA OciChange ==
    ASSUME TypeOK, NEW st \in {"created", "running", "paused", "stopped"}
    PROVE  [oci EXCEPT !.st = st] \in OciType
  BY Zenon DEF TypeOK, OciType

\* ... in particular when the container's process is killed.
LEMMA DeadOciType == ASSUME TypeOK PROVE DeadOci \in OciType
  BY Zenon, OciChange DEF DeadOci

\* cleanupRuntime keeps the types of what it may change.
LEMMA CleanupRuntimeTypes ==
    ASSUME TypeOK, NEW p \in Procs, cleanupRuntime(p)
    PROVE  /\ mem' \in [Procs -> StateType] /\ db' \in StateType
           /\ oci' \in OciType /\ exitFile' \in ExitFiles
           /\ UNCHANGED <<runs, conmon, unhealthy>>
<1>1. mem[p] \in StateType /\ {"Exited", "Configured"} \subseteq States
  BY Zenon DEF TypeOK, States
<1>2. CASE StateIn(p, {"Stopped", "Created"})
  BY Zenon, <1>1, <1>2, OneField, SaveTypes, NoFileNoOci DEF cleanupRuntime
<1>3. CASE ~StateIn(p, {"Stopped", "Created"})
  BY Zenon, <1>3 DEF cleanupRuntime, ociVars, TypeOK
<1>4. QED
  BY Zenon, <1>2, <1>3

\* The initial state is well typed.
LEMMA InitTypeOK == Init => TypeOK
<1> SUFFICES ASSUME Init PROVE TypeOK
  BY Zenon
<1>1. db \in StateType
  BY Zenon, BlankState, OneField DEF Init, States
<1>2. mem \in [Procs -> StateType]
  BY Zenon, BlankState DEF Init
<1>5. /\ pc \in [Procs -> Unlocked \cup Locked]
      /\ cmd \in [Procs -> UserCommands \cup {"none", "health stop",
                                               "cleanup --stopped-only"}]
      /\ valid \in [Procs -> BOOLEAN]
      /\ err \in [Procs -> BOOLEAN]
      /\ conmonPID \in [Procs -> 0 .. MaxRuns]
      /\ conmon \in [Runs -> {"none", "monitoring", "exiting", "gone"}]
  BY ContainerAssumption DEF Init, Unlocked
<1>6. /\ freed \in Nat
      /\ runs \in 0 .. MaxRuns
      /\ launched \in Nat
      /\ budget \in Nat
      /\ lock \in Procs \cup {NoProc}
      /\ intent \in Procs \cup {"none", "stopped"}
      /\ ran \subseteq 0 .. MaxRuns /\ begun \subseteq GoOn
  BY ContainerAssumption DEF Init
<1>7. exists \in BOOLEAN /\ storage \in BOOLEAN /\ unhealthy \in BOOLEAN
  BY Zenon DEF Init
<1>8. codeRow \in ExitFiles /\ exitFile \in ExitFiles
  BY NoFileNoOci, Zenon DEF Init
<1>9. oci \in OciType
  BY NoFileNoOci, Zenon DEF Init
<1>10. QED
  BY <1>1, <1>2, <1>5, <1>6, <1>7, <1>8, <1>9, Zenon DEF TypeOK

\* A step to a place of the program, failing or not.
LEMMA MoveTypes ==
    ASSUME TypeOK, NEW p \in Procs, NEW l \in Unlocked \cup Locked,
           pc' = [pc EXCEPT ![p] = l],
           err' = err \/ err' = [err EXCEPT ![p] = TRUE]
    PROVE  pc' \in [Procs -> Unlocked \cup Locked] /\ err' \in [Procs -> BOOLEAN]
<1>1. pc \in [Procs -> Unlocked \cup Locked] /\ err \in [Procs -> BOOLEAN]
  BY Zenon DEF TypeOK
<1>2. QED
  BY Zenon, <1>1

\* Steps of the start path keep the types.
LEMMA StartingTypes ==
    ASSUME TypeOK, NEW p \in Procs, Starting(p)
    PROVE  TypeOK'
<1> USE DEF Goto, Fail, At, Doing, dbVars, ociVars, rmVars, procVars, userVars,
            Unlocked, Locked
<1>0. mem[p] \in StateType
  BY Zenon DEF TypeOK
<1>1. CASE BeginStart(p)
  <2>1. /\ \E l \in {"prepare", "done"} : pc' = [pc EXCEPT ![p] = l]
        /\ err' = err \/ err' = [err EXCEPT ![p] = TRUE]
    BY Zenon, <1>1 DEF BeginStart
  <2>2. pc' \in [Procs -> Unlocked \cup Locked] /\ err' \in [Procs -> BOOLEAN]
    BY Zenon, <2>1, MoveTypes
  <2>3. QED
    BY Zenon, <1>1, <2>2 DEF BeginStart, TypeOK
<1>2. CASE prepare(p)
  <2>1. mem' \in [Procs -> StateType] /\ db' \in StateType
    BY Zenon, <1>0, <1>2, SeveralFields, SaveTypes DEF prepare, Codes
  <2>2. QED
    BY Zenon, <1>2, <2>1 DEF prepare, TypeOK
<1>3. CASE prepareFails(p)
  <2>1. mem' \in [Procs -> StateType] /\ db' \in StateType
    BY Zenon, <1>0, <1>3, SeveralFields, SaveTypes DEF prepareFails, Codes
  <2>2. QED
    BY Zenon, <1>3, <2>1 DEF prepareFails, TypeOK
<1>4. CASE reinit(p)
  BY Zenon, <1>4, CleanupRuntimeTypes DEF reinit, TypeOK
<1>5. CASE init(p)
  <2>1. runs + 1 \in 0 .. MaxRuns /\ runs + 1 \in Runs
    <3>1. runs \in 0 .. MaxRuns /\ runs < MaxRuns /\ MaxRuns \in Nat
      BY Zenon, <1>5, ContainerAssumption DEF init, TypeOK
    <3>2. QED
      BY <3>1 DEF Runs
  <2>2. [mem[p] EXCEPT !.PID = runs + 1] \in StateType
    BY Zenon, <1>0, <2>1, OneField
  <2>3. [st |-> "created", run |-> runs + 1] \in OciType
    BY Zenon, <2>1 DEF OciType
  <2>4. QED
    BY Zenon, <1>5, <2>1, <2>2, <2>3, NoFileNoOci DEF init, TypeOK
<1>6. CASE initFails(p)
  BY Zenon, <1>6, NoFileNoOci DEF initFails, TypeOK
<1>7. CASE SaveCreated(p)
  <2>1. (IF cmd[p] \in Cleaners THEN mem[p].RestartCount ELSE 0) \in Nat
    BY Zenon, <1>0 DEF StateType
  <2>2. mem' \in [Procs -> StateType] /\ db' \in StateType
    BY Zenon, <1>0, <1>7, <2>1, SeveralFields, SaveTypes DEF SaveCreated, Codes
  <2>3. QED
    BY Zenon, <1>7, <2>2 DEF SaveCreated, TypeOK
<1>8. CASE start(p)
  <2>1. [mem[p] EXCEPT !.State = "Running"] \in StateType
    BY Zenon, <1>0, OneField DEF States
  <2>2. ran' \subseteq 0 .. MaxRuns
    <3>1. ran \subseteq 0 .. MaxRuns /\ oci \in OciType
      BY Zenon DEF TypeOK
    <3>2. oci.run \in 0 .. MaxRuns
      BY Zenon, <3>1 DEF OciType
    <3>3. QED
      BY Zenon, <1>8, <3>1, <3>2 DEF start
  <2>3. QED
    BY Zenon, <1>8, <2>1, <2>2, OciChange DEF start, TypeOK
<1>9. CASE startFails(p)
  BY Zenon, <1>9 DEF startFails, TypeOK
<1>10. CASE SaveState(p)
  <2>1. mem' \in [Procs -> StateType] /\ db' \in StateType
    BY Zenon, <1>0, <1>10, SaveTypes DEF SaveState
  <2>2. QED
    BY Zenon, <1>10, <2>1 DEF SaveState, TypeOK
<1>11. QED
  BY Zenon, <1>1, <1>2, <1>3, <1>4, <1>5, <1>6, <1>7, <1>8, <1>9, <1>10 DEF Starting

\* The places where the lock is waited for, and where they lead.
LEMMA PlacesAfterLock ==
    ASSUME NEW l \in DOMAIN AfterLock
    PROVE  /\ l \in {"lock", "stop_lock", "exec_lock", "wait_lock"}
           /\ AfterLock[l] \in {"body", "stop_check", "rm_mark", "wait_result"}
           /\ l # "exec_lock" => AfterLock[l] # "rm_mark"
<1>1. l \in {"lock", "stop_lock", "exec_lock", "wait_lock"}
  BY Zenon DEF AfterLock
<1>2. QED
  BY <1>1 DEF AfterLock

\* Kill, Pause and Unpause keep the types.
LEMMA SignallingTypes ==
    ASSUME TypeOK, NEW p \in Procs, Signalling(p)
    PROVE  TypeOK'
<1> USE DEF Goto, Fail, At, Doing, dbVars, ociVars, rmVars, procVars, userVars,
            Unlocked, Locked
<1>0. mem[p] \in StateType
  BY Zenon DEF TypeOK
<1>1. CASE Kill(p)
  <2>1. [mem[p] EXCEPT !.StoppedByUser = TRUE] \in StateType
    BY Zenon, <1>0, OneField
  <2>2. mem' \in [Procs -> StateType]
    BY Zenon, <1>1, <2>1 DEF Kill, TypeOK
  <2>3. oci' \in OciType
    BY Zenon, <1>1, DeadOciType DEF Kill, TypeOK
  <2>4. pc' \in [Procs -> Unlocked \cup Locked] /\ err' \in [Procs -> BOOLEAN]
    <3>1. /\ \E l \in {"conmon", "save", "done"} : pc' = [pc EXCEPT ![p] = l]
          /\ err' = err \/ err' = [err EXCEPT ![p] = TRUE]
      BY Zenon, <1>1 DEF Kill
    <3>2. QED
      BY Zenon, <3>1, MoveTypes
  <2>5. QED
    BY Zenon, <1>1, <2>2, <2>3, <2>4 DEF Kill, TypeOK
<1>2. ASSUME NEW c, NEW from, NEW to \in States, NEW ociFrom,
             NEW ociTo \in {"running", "paused"}, Freeze(p, c, from, to, ociFrom, ociTo)
      PROVE  TypeOK'
  <2>1. [mem[p] EXCEPT !.State = to] \in StateType
    BY Zenon, <1>0, OneField
  <2>2. mem' \in [Procs -> StateType]
    BY Zenon, <1>2, <2>1 DEF Freeze, TypeOK
  <2>3. oci' \in OciType
    <3>1. oci' = oci \/ oci' = [oci EXCEPT !.st = ociTo]
      BY Zenon, <1>2 DEF Freeze
    <3>2. oci \in OciType
      BY Zenon DEF TypeOK
    <3>3. QED
      BY Zenon, <3>1, <3>2, OciChange
  <2>4. pc' \in [Procs -> Unlocked \cup Locked] /\ err' \in [Procs -> BOOLEAN]
    <3>1. /\ \E l \in {"save", "done"} : pc' = [pc EXCEPT ![p] = l]
          /\ err' = err \/ err' = [err EXCEPT ![p] = TRUE]
      BY Zenon, <1>2 DEF Freeze
    <3>2. QED
      BY Zenon, <3>1, MoveTypes
  <2>5. QED
    BY Zenon, <1>2, <2>2, <2>3, <2>4 DEF Freeze, TypeOK
<1>3. QED
  BY Zenon, <1>1, <1>2 DEF Signalling, Pause, Unpause, States

\* Steps of the stop path keep the types.
LEMMA StoppingTypes ==
    ASSUME TypeOK, NEW p \in Procs, Stopping(p)
    PROVE  TypeOK'
<1> USE DEF Goto, Fail, At, Doing, dbVars, ociVars, rmVars, procVars, userVars,
            Unlocked, Locked
<1>0. mem[p] \in StateType /\ AfterStop(p) \in Locked /\ -1 \in Codes
  BY Zenon DEF TypeOK, AfterStop, Codes
<1>1. CASE stop(p)
  <2>1. mem' \in [Procs -> StateType] /\ db' \in StateType
    BY Zenon, <1>0, <1>1, OneField, SeveralFields, SaveTypes DEF stop
  <2>2. QED
    BY Zenon, <1>1, <2>1 DEF stop, TypeOK
<1>2. CASE StopPing(p)
  BY Zenon, <1>2 DEF StopPing, TypeOK
<1>3. CASE StopKill(p)
  BY Zenon, <1>3, DeadOciType DEF StopKill, TypeOK
<1>4. CASE StopKillFails(p)
  BY Zenon, <1>4 DEF StopKillFails, TypeOK
<1>5. CASE StopCheck(p)
  <2>1. [mem[p] EXCEPT !.State = "Stopped"] \in StateType
    BY Zenon, <1>0, OneField DEF States
  <2>2. mem' \in [Procs -> StateType]
    BY Zenon, <1>5, <2>1 DEF StopCheck, TypeOK
  <2>3. pc' \in [Procs -> Unlocked \cup Locked]
    <3>1. \E l \in {"done", "conmon", AfterStop(p)} : pc' = [pc EXCEPT ![p] = l]
      BY Zenon, <1>5 DEF StopCheck
    <3>2. QED
      BY Zenon, <1>0, <3>1 DEF TypeOK
  <2>4. QED
    BY Zenon, <1>5, <2>2, <2>3 DEF StopCheck, TypeOK
<1>6. CASE ConmonAlive(p)
  <2>1. mem' \in [Procs -> StateType] /\ db' \in StateType
    BY Zenon, <1>0, <1>6, SaveTypes DEF ConmonAlive
  <2>2. QED
    BY Zenon, <1>6, <2>1 DEF ConmonAlive, TypeOK
<1>7. CASE ConmonGone(p)
  <2>1. mem' \in [Procs -> StateType] /\ db' \in StateType
    BY Zenon, <1>0, <1>7, ExitTypes, SaveTypes DEF ConmonGone
  <2>2. QED
    BY Zenon, <1>0, <1>7, <2>1 DEF ConmonGone, RecordExit, TypeOK
<1>8. CASE ConmonDiedEarly(p)
  <2>1. mem' \in [Procs -> StateType] /\ db' \in StateType
    BY Zenon, <1>0, <1>8, SeveralFields, SaveTypes DEF ConmonDiedEarly
  <2>2. codeRow' \in ExitFiles
    BY Zenon, <1>0, <1>8 DEF ConmonDiedEarly, StateType, ExitFiles
  <2>3. QED
    BY Zenon, <1>8, <2>1, <2>2, DeadOciType DEF ConmonDiedEarly, TypeOK
<1>9. CASE ExitFileAppears(p)
  <2>1. mem' \in [Procs -> StateType] /\ db' \in StateType
    BY Zenon, <1>0, <1>9, ExitTypes, SaveTypes DEF ExitFileAppears
  <2>2. QED
    BY Zenon, <1>0, <1>9, <2>1 DEF ExitFileAppears, RecordExit, TypeOK
<1>10. CASE ExitFileTimeout(p)
  <2>1. mem' \in [Procs -> StateType] /\ db' \in StateType
    BY Zenon, <1>0, <1>10, SeveralFields, SaveTypes DEF ExitFileTimeout
  <2>2. QED
    BY Zenon, <1>10, <2>1 DEF ExitFileTimeout, TypeOK
<1>11. CASE RestartNet(p)
  <2>1. mem' \in [Procs -> StateType] /\ db' \in StateType
    BY Zenon, <1>0, <1>11, OneField, SaveTypes DEF RestartNet
  <2>2. pc' \in [Procs -> Unlocked \cup Locked] /\ err' \in [Procs -> BOOLEAN]
    <3>1. /\ \E l \in {"prepare", "done"} : pc' = [pc EXCEPT ![p] = l]
          /\ err' = err \/ err' = [err EXCEPT ![p] = TRUE]
      BY Zenon, <1>11 DEF RestartNet
    <3>2. QED
      BY Zenon, <3>1, MoveTypes
  <2>3. QED
    BY Zenon, <1>11, <2>1, <2>2 DEF RestartNet, TypeOK
<1>12. QED
  BY Zenon, <1>1, <1>2, <1>3, <1>4, <1>5, <1>6, <1>7, <1>8, <1>9, <1>10, <1>11 DEF Stopping

\* Steps of Cleanup keep the types.
LEMMA CleaningTypes ==
    ASSUME TypeOK, NEW p \in Procs, Cleaning(p)
    PROVE  TypeOK'
<1> USE DEF Goto, Fail, At, Doing, dbVars, ociVars, rmVars, procVars, userVars,
            Unlocked, Locked
<1>0. mem[p] \in StateType
  BY Zenon DEF TypeOK
<1>1. CASE Cleanup(p)
  <2>1. mem[p].RestartCount + 1 \in Nat
    <3>1. mem[p].RestartCount \in Nat
      BY Zenon, <1>0 DEF StateType
    <3>2. QED
      BY <3>1
  <2>2. [mem[p] EXCEPT !.RestartCount = @ + 1] \in StateType
    BY Zenon, <1>0, <2>1, OneField
  <2>3. mem' \in [Procs -> StateType] /\ db' \in StateType
    BY Zenon, <1>1, <2>2, SaveTypes DEF Cleanup, handleRestartPolicy, TypeOK
  <2>4. pc' \in [Procs -> Unlocked \cup Locked] /\ err' \in [Procs -> BOOLEAN]
    <3>1. /\ \E l \in {"restart_net", "cl_net", "done"} : pc' = [pc EXCEPT ![p] = l]
          /\ err' = err \/ err' = [err EXCEPT ![p] = TRUE]
      BY Zenon, <1>1 DEF Cleanup, handleRestartPolicy
    <3>2. QED
      BY Zenon, <3>1, MoveTypes
  <2>5. QED
    BY Zenon, <1>1, <2>3, <2>4 DEF Cleanup, handleRestartPolicy, TypeOK
<1>2. CASE CleanupNetwork(p)
  <2>1. mem' \in [Procs -> StateType] /\ db' \in StateType
    BY Zenon, <1>0, <1>2, OneField, SaveTypes DEF CleanupNetwork
  <2>2. QED
    BY Zenon, <1>2, <2>1 DEF CleanupNetwork, TypeOK
<1>3. CASE CleanupRuntime(p)
  BY Zenon, <1>3, CleanupRuntimeTypes DEF CleanupRuntime, TypeOK
<1>4. CASE CleanupStorage(p)
  <2>1. mem' \in [Procs -> StateType] /\ db' \in StateType
    BY Zenon, <1>0, <1>4, OneField, SaveTypes DEF CleanupStorage
  <2>2. QED
    BY Zenon, <1>4, <2>1 DEF CleanupStorage, TypeOK
<1>5. QED
  BY Zenon, <1>1, <1>2, <1>3, <1>4 DEF Cleaning

\* Steps of removeContainer keep the types.
LEMMA RemovingTypes ==
    ASSUME TypeOK, NEW p \in Procs, Removing(p)
    PROVE  TypeOK'
<1> USE DEF Goto, Fail, At, Doing, dbVars, ociVars, rmVars, procVars, userVars,
            Unlocked, Locked
<1>0. mem[p] \in StateType
  BY Zenon DEF TypeOK
<1>1. CASE Remove(p)
  <2>1. oci' \in OciType
    BY Zenon, <1>1, DeadOciType DEF Remove, TypeOK
  <2>2. pc' \in [Procs -> Unlocked \cup Locked] /\ err' \in [Procs -> BOOLEAN]
    <3>1. /\ \E l \in {"exitwait", "cl_net", "done"} : pc' = [pc EXCEPT ![p] = l]
          /\ err' = err \/ err' = [err EXCEPT ![p] = TRUE]
      BY Zenon, <1>1 DEF Remove
    <3>2. QED
      BY Zenon, <3>1, MoveTypes
  <2>3. QED
    BY Zenon, <1>1, <2>1, <2>2 DEF Remove, TypeOK
<1>2. CASE RemoveCheck(p)
  <2>1. CASE exists
    BY Zenon, <1>2, <2>1 DEF RemoveCheck, TypeOK
  <2>2. CASE ~exists
    BY Zenon, <1>2, <2>2, CleanupRuntimeTypes DEF RemoveCheck, TypeOK
  <2>3. QED
    BY Zenon, <2>1, <2>2
<1>3. CASE RemoveExecSessions(p)
  BY Zenon, <1>3 DEF RemoveExecSessions, TypeOK
<1>4. CASE MarkRemoving(p)
  <2>1. mem' \in [Procs -> StateType] /\ db' \in StateType
    BY Zenon, <1>0, <1>4, OneField, SaveTypes DEF MarkRemoving, States
  <2>2. QED
    BY Zenon, <1>4, <2>1 DEF MarkRemoving, TypeOK
<1>5. CASE teardownStorage(p)
  <2>1. mem' \in [Procs -> StateType] /\ db' \in StateType
    BY Zenon, <1>0, <1>5, OneField, SaveTypes DEF teardownStorage
  <2>2. QED
    BY Zenon, <1>5, <2>1 DEF teardownStorage, TypeOK
<1>6. CASE RemoveFromDB(p)
  BY Zenon, <1>6 DEF RemoveFromDB, TypeOK
<1>7. CASE FreeLock(p)
  <2>0. freed \in Nat
    BY Zenon DEF TypeOK
  <2>1. freed' \in Nat
    BY <1>7, <2>0 DEF FreeLock
  <2>2. /\ pc' \in [Procs -> Unlocked \cup Locked] /\ err' \in [Procs -> BOOLEAN]
        /\ valid' \in [Procs -> BOOLEAN]
    BY Zenon, <1>7 DEF FreeLock, TypeOK
  <2>3. QED
    BY Zenon, <1>7, <2>1, <2>2 DEF FreeLock, TypeOK
<1>8. QED
  BY Zenon, <1>1, <1>2, <1>3, <1>4, <1>5, <1>6, <1>7 DEF Removing

\* WaitForExit and Sync keep the types.
LEMMA WaitingTypes ==
    ASSUME TypeOK, NEW p \in Procs, Waiting(p)
    PROVE  TypeOK'
<1> USE DEF Goto, Fail, At, Doing, dbVars, ociVars, rmVars, procVars, userVars,
            Unlocked, Locked
<1>1. CASE WaitForExit(p)
  <2>1. mem[p].PID \in 0 .. MaxRuns
    BY Zenon DEF TypeOK, StateType
  <2>2. pc' \in [Procs -> Unlocked \cup Locked] /\ err' \in [Procs -> BOOLEAN]
    <3>1. /\ \E l \in {"wait_conmon", "done"} : pc' = [pc EXCEPT ![p] = l]
          /\ err' = err \/ err' = [err EXCEPT ![p] = TRUE]
      BY Zenon, <1>1 DEF WaitForExit
    <3>2. QED
      BY Zenon, <3>1, MoveTypes
  <2>3. conmonPID' \in [Procs -> 0 .. MaxRuns] /\ lock' \in Procs \cup {NoProc}
    BY Zenon, <1>1, <2>1 DEF WaitForExit, TypeOK
  <2>4. QED
    BY Zenon, <1>1, <2>2, <2>3 DEF WaitForExit, TypeOK
<1>2. CASE WaitForConmon(p)
  BY Zenon, <1>2 DEF WaitForConmon, TypeOK
<1>3. CASE WaitResult(p)
  <2>1. pc' = [pc EXCEPT ![p] = "done"] /\ (err' = err \/ err' = [err EXCEPT ![p] = TRUE])
    BY Zenon, <1>3 DEF WaitResult
  <2>2. pc' \in [Procs -> Unlocked \cup Locked] /\ err' \in [Procs -> BOOLEAN]
    BY Zenon, <2>1, MoveTypes
  <2>3. QED
    BY Zenon, <1>3, <2>2 DEF WaitResult, TypeOK
<1>4. CASE Sync(p)
  BY Zenon, <1>4 DEF Sync, TypeOK
<1>5. QED
  BY Zenon, <1>1, <1>2, <1>3, <1>4 DEF Waiting

\* Beginning, locking, returning and dying keep the types.
LEMMA FrameTypes ==
    ASSUME TypeOK, NEW p \in Procs,
           \/ \E c \in Commands : BeginUser(p, c)
           \/ BeginCleanup(p) \/ BeginHealthStop(p)
           \/ LockAndSync(p) \/ Removed(p) \/ Return(p) \/ Die(p)
    PROVE  TypeOK'
<1> USE DEF Goto, Fail, At, dbVars, ociVars, rmVars, procVars, userVars, Unlocked, Locked
<1>0. Blank \in StateType /\ mem[p] \in StateType
  BY Zenon, BlankState DEF TypeOK
<1>1. ASSUME NEW c \in Commands, BeginUser(p, c) PROVE TypeOK'
  <2>0. /\ budget \in Nat /\ intent \in Procs \cup {"none", "stopped"}
        /\ begun \subseteq GoOn
    BY Zenon DEF TypeOK
  <2>1. /\ budget' \in Nat /\ intent' \in Procs \cup {"none", "stopped"}
        /\ begun' \subseteq GoOn
    BY <1>1, <2>0 DEF BeginUser
  <2>2. cmd' \in [Procs -> UserCommands \cup {"none", "health stop",
                                               "cleanup --stopped-only"}]
    BY Zenon, <1>1, ContainerAssumption DEF BeginUser, TypeOK
  <2>3. /\ valid' \in [Procs -> BOOLEAN] /\ err' \in [Procs -> BOOLEAN]
        /\ pc' \in [Procs -> Unlocked \cup Locked]
    BY Zenon, <1>1 DEF BeginUser, TypeOK
  <2>4. QED
    BY Zenon, <1>1, <2>1, <2>2, <2>3 DEF BeginUser, TypeOK
<1>2. CASE BeginCleanup(p)
  <2>0. launched \in Nat
    BY Zenon DEF TypeOK
  <2>1. launched > 0 /\ launched' = launched - 1
    BY <1>2, Zenon DEF BeginCleanup
  <2>5. launched' \in Nat
    BY <2>0, <2>1
  <2>2. cmd' \in [Procs -> UserCommands \cup {"none", "health stop",
                                               "cleanup --stopped-only"}]
    BY Zenon, <1>2 DEF BeginCleanup, TypeOK
  <2>3. /\ valid' \in [Procs -> BOOLEAN] /\ err' \in [Procs -> BOOLEAN]
        /\ pc' \in [Procs -> Unlocked \cup Locked]
    BY Zenon, <1>2 DEF BeginCleanup, TypeOK
  <2>4. QED
    BY Zenon, <1>2, <2>5, <2>2, <2>3 DEF BeginCleanup, TypeOK
<1>3. CASE BeginHealthStop(p)
  BY Zenon, <1>3 DEF BeginHealthStop, TypeOK
<1>4. CASE LockAndSync(p)
  <2>1. Synced(db) \in StateType
    BY Zenon, ExitTypes DEF TypeOK
  <2>2. mem' \in [Procs -> StateType] /\ db' \in StateType
    BY Zenon, <1>4, <2>1 DEF LockAndSync, syncContainer, TypeOK
  <2>3. codeRow' \in ExitFiles /\ valid' \in [Procs -> BOOLEAN]
    BY Zenon, <1>4 DEF LockAndSync, syncContainer, RecordExit, TypeOK
  <2>4. AfterLock[pc[p]] \in Locked
    BY Zenon, <1>4, PlacesAfterLock DEF LockAndSync
  <2>5. QED
    BY Zenon, <1>4, <2>2, <2>3, <2>4 DEF LockAndSync, TypeOK
<1>5. CASE Removed(p)
  <2>1. pc' = [pc EXCEPT ![p] = "done"] /\ (err' = err \/ err' = [err EXCEPT ![p] = TRUE])
    BY Zenon, <1>5 DEF Removed
  <2>2. pc' \in [Procs -> Unlocked \cup Locked] /\ err' \in [Procs -> BOOLEAN]
    BY Zenon, <2>1, MoveTypes
  <2>3. QED
    BY Zenon, <1>5, <2>2 DEF Removed, TypeOK
<1>6. CASE Return(p)
  <2>0. 0 \in 0 .. MaxRuns
    BY ContainerAssumption
  <2>1. /\ mem' \in [Procs -> StateType] /\ db' \in StateType
        /\ conmonPID' \in [Procs -> 0 .. MaxRuns]
    BY Zenon, <1>0, <1>6, <2>0 DEF Return, TypeOK
  <2>2. /\ cmd' \in [Procs -> UserCommands \cup {"none", "health stop",
                                                  "cleanup --stopped-only"}]
        /\ lock' \in Procs \cup {NoProc}
        /\ intent' \in Procs \cup {"none", "stopped"}
    BY Zenon, <1>6 DEF Return, TypeOK
  <2>3. /\ valid' \in [Procs -> BOOLEAN] /\ err' \in [Procs -> BOOLEAN]
        /\ pc' \in [Procs -> Unlocked \cup Locked]
    BY Zenon, <1>6 DEF Return, TypeOK
  <2>4. QED
    BY Zenon, <1>6, <2>1, <2>2, <2>3 DEF Return, TypeOK
<1>7. CASE Die(p)
  <2>0. 0 \in 0 .. MaxRuns
    BY ContainerAssumption
  <2>1. /\ mem' \in [Procs -> StateType] /\ db' \in StateType
        /\ conmonPID' \in [Procs -> 0 .. MaxRuns]
    BY Zenon, <1>0, <1>7, <2>0 DEF Die, TypeOK
  <2>2. /\ cmd' \in [Procs -> UserCommands \cup {"none", "health stop",
                                                  "cleanup --stopped-only"}]
        /\ lock' \in Procs \cup {NoProc}
        /\ intent' \in Procs \cup {"none", "stopped"}
    BY Zenon, <1>7 DEF Die, TypeOK
  <2>3. /\ valid' \in [Procs -> BOOLEAN] /\ err' \in [Procs -> BOOLEAN]
        /\ pc' \in [Procs -> Unlocked \cup Locked]
    BY Zenon, <1>7 DEF Die, TypeOK
  <2>4. QED
    BY Zenon, <1>7, <2>1, <2>2, <2>3 DEF Die, TypeOK
<1>8. QED
  BY Zenon, <1>1, <1>2, <1>3, <1>4, <1>5, <1>6, <1>7

\* The container's process and conmon keep the types.
LEMMA OutsideTypes ==
    ASSUME TypeOK,
           ContainerExits \/ \E r \in Runs : Conmon(r) \/ ConmonDies(r)
    PROVE  TypeOK'
<1> USE DEF dbVars, ociVars, rmVars, procVars, userVars
<1>1. CASE ContainerExits
  BY Zenon, <1>1, DeadOciType DEF ContainerExits, TypeOK
<1>2. ASSUME NEW r \in Runs, ConmonReports(r) PROVE TypeOK'
  <2>1. exitFile' \in ExitFiles
    <3>1. PICK c \in ExitCodes : exitFile' = [run |-> r, code |-> c]
      BY Zenon, <1>2 DEF ConmonReports
    <3>2. c \in Codes /\ r \in 0 .. MaxRuns
      BY ContainerAssumption DEF Codes, Runs
    <3>3. QED
      BY Zenon, <3>1, <3>2 DEF ExitFiles
  <2>0. launched \in Nat /\ conmon \in [Runs -> {"none", "monitoring", "exiting", "gone"}]
    BY Zenon DEF TypeOK
  <2>2. launched' \in Nat /\ conmon' \in [Runs -> {"none", "monitoring", "exiting", "gone"}]
    BY <1>2, <2>0 DEF ConmonReports
  <2>3. QED
    BY Zenon, <1>2, <2>1, <2>2 DEF ConmonReports, TypeOK
<1>3. ASSUME NEW r \in Runs, ConmonExits(r) PROVE TypeOK'
  BY Zenon, <1>3 DEF ConmonExits, TypeOK
<1>4. ASSUME NEW r \in Runs, ConmonDies(r) PROVE TypeOK'
  BY Zenon, <1>4 DEF ConmonDies, TypeOK
<1>5. QED
  BY Zenon, <1>1, <1>2, <1>3, <1>4 DEF Conmon

\* Every step keeps the types.
LEMMA NextTypeOK == TypeOK /\ [Next]_vars => TypeOK'
<1> SUFFICES ASSUME TypeOK, [Next]_vars PROVE TypeOK'
  BY Zenon
<1>1. CASE UNCHANGED vars
  BY Zenon, <1>1 DEF vars, dbVars, ociVars, rmVars, procVars, userVars, TypeOK
<1>2. ASSUME NEW p \in Procs, Podman(p) PROVE TypeOK'
  BY Zenon, <1>2, FrameTypes, StartingTypes, SignallingTypes, StoppingTypes, CleaningTypes,
     RemovingTypes, WaitingTypes, Zenon DEF Podman
<1>3. QED
  BY <1>1, <1>2, FrameTypes, OutsideTypes, Zenon DEF Next

\* The state always has its type: every value podman, conmon and the runtime write
\* is one the code's readers expect.
THEOREM TypeCorrect == Spec => []TypeOK
  BY InitTypeOK, NextTypeOK, PTL DEF Spec
-----------------------------------------------------------------------------
(* The lock *)

\* A process is inside the critical section exactly while it holds the lock: the
\* places where the code believes it has the lock are those where it has it.
LockHeld == \A p \in Procs : pc[p] \in Locked <=> lock = p

\* The ways a step of one process can treat the lock: it goes on in the critical
\* section or outside it, leaves it, or enters it.
LEMMA LockMoves ==
    ASSUME TypeOK, LockHeld, NEW p \in Procs, NEW l \in Unlocked \cup Locked,
           pc' = [pc EXCEPT ![p] = l],
           \/ lock = p /\ l \in Locked /\ lock' = lock
           \/ lock = p /\ l \in Unlocked /\ lock' = NoProc
           \/ pc[p] \in Unlocked /\ l \in Unlocked /\ lock' = lock
           \/ pc[p] \in Unlocked /\ l \in Locked /\ lock = NoProc /\ lock' = p
    PROVE  LockHeld'
<1>1. pc[p] \in Unlocked \cup Locked /\ pc'[p] = l
  BY Zenon DEF TypeOK
<1>2. \A q \in Procs : q # p => pc'[q] = pc[q]
  BY Zenon DEF TypeOK
<1>3. Unlocked \cap Locked = {}
  BY Zenon DEF Unlocked, Locked
<1>4. pc[p] \in Locked <=> lock = p
  BY Zenon DEF LockHeld
<1>5. (pc'[p] \in Locked) <=> lock' = p
  BY Zenon, <1>1, <1>3, <1>4, ContainerAssumption
<1>6. ASSUME NEW q \in Procs, q # p PROVE (pc'[q] \in Locked) <=> lock' = q
  <2>1. (pc'[q] \in Locked) <=> lock = q
    BY Zenon, <1>2, <1>6 DEF LockHeld
  <2>2. lock' = lock \/ (lock = p /\ lock' = NoProc) \/ (lock = NoProc /\ lock' = p)
    BY Zenon
  <2>3. QED
    BY Zenon, <1>6, <2>1, <2>2, ContainerAssumption
<1>7. QED
  BY <1>5, <1>6, Zenon DEF LockHeld

\* A step that leaves the control points and the lock alone.
LEMMA LockStays == ASSUME LockHeld, UNCHANGED <<pc, lock>> PROVE LockHeld'
  BY Zenon DEF LockHeld

\* Every step of a podman process treats the lock in one of these ways.
LEMMA PodmanLockHeld ==
    ASSUME TypeOK, LockHeld, NEW p \in Procs, Podman(p)
    PROVE  LockHeld'
<1> USE DEF Goto, Fail, At, Doing
<1>0. AfterStop(p) \in Locked
  BY Zenon DEF AfterStop, Locked
<1>1. CASE LockAndSync(p)
  <2>1. AfterLock[pc[p]] \in Locked /\ pc[p] \in Unlocked
    BY Zenon, <1>1, PlacesAfterLock DEF LockAndSync, Unlocked, Locked
  <2>2. QED
    BY Zenon, <1>1, <2>1, LockMoves DEF LockAndSync
<1>2. CASE Removed(p)
  BY Zenon, <1>2, LockMoves DEF Removed, Locked
<1>3. CASE Starting(p)
  BY Zenon, <1>3, LockMoves DEF Starting, BeginStart, prepare, prepareFails, reinit, init,
     initFails, SaveCreated, start, startFails, SaveState, Locked
<1>4. CASE Signalling(p)
  BY Zenon, <1>4, LockMoves DEF Signalling, Kill, Pause, Unpause, Freeze, Locked
<1>5. CASE stop(p)
  BY Zenon, <1>5, LockMoves DEF stop, StopsFirst, Locked, Unlocked
<1>6. CASE StopPing(p) \/ StopKill(p) \/ StopKillFails(p)
  BY Zenon, <1>6, LockMoves DEF StopPing, StopKill, StopKillFails, Unlocked
<1>7. CASE StopCheck(p)
  <2>1. pc' = [pc EXCEPT ![p] = "done"] \/ pc' = [pc EXCEPT ![p] = "conmon"]
        \/ pc' = [pc EXCEPT ![p] = AfterStop(p)]
    BY Zenon, <1>7 DEF StopCheck
  <2>2. "done" \in Locked /\ "conmon" \in Locked
    BY Zenon DEF Locked
  <2>3. QED
    BY Zenon, <1>0, <1>7, <2>1, <2>2, LockMoves DEF StopCheck
<1>8. CASE ConmonAlive(p) \/ ConmonDiedEarly(p) \/ ExitFileTimeout(p) \/ RestartNet(p)
  BY Zenon, <1>8, LockMoves DEF ConmonAlive, ConmonDiedEarly, ExitFileTimeout, RestartNet, Locked
<1>9. CASE ConmonGone(p) \/ ExitFileAppears(p)
  BY Zenon, <1>0, <1>9, LockMoves DEF ConmonGone, ExitFileAppears
<1>10. CASE Cleaning(p)
  BY Zenon, <1>10, LockMoves DEF Cleaning, Cleanup, handleRestartPolicy, CleanupNetwork, CleanupRuntime,
     CleanupStorage, Locked
<1>11. CASE Removing(p)
  <2>1. CASE Remove(p) \/ RemoveCheck(p)
    BY Zenon, <2>1, LockMoves DEF Remove, RemoveCheck, Locked
  <2>2. CASE RemoveExecSessions(p)
    BY Zenon, <2>2, LockMoves DEF RemoveExecSessions, Locked, Unlocked
  <2>3. CASE MarkRemoving(p) \/ teardownStorage(p) \/ RemoveFromDB(p) \/ FreeLock(p)
    BY Zenon, <2>3, LockMoves DEF MarkRemoving, teardownStorage, RemoveFromDB, FreeLock, Locked
  <2>4. QED
    BY Zenon, <1>11, <2>1, <2>2, <2>3 DEF Removing
<1>12. CASE WaitForExit(p)
  BY Zenon, <1>12, LockMoves DEF WaitForExit, Locked, Unlocked
<1>13. CASE WaitForConmon(p)
  BY Zenon, <1>13, LockMoves DEF WaitForConmon, Unlocked
<1>14. CASE WaitResult(p) \/ Sync(p)
  BY Zenon, <1>14, LockMoves DEF WaitResult, Sync, Locked
<1>15. CASE Return(p)
  BY Zenon, <1>15, LockMoves DEF Return, Unlocked
<1>16. QED
  BY Zenon, <1>1, <1>2, <1>3, <1>4, <1>5, <1>6, <1>7, <1>8, <1>9, <1>10, <1>11, <1>12,
     <1>13, <1>14, <1>15, Zenon DEF Podman, Stopping, Waiting

\* And so does every step.
LEMMA NextLockHeld == TypeOK /\ LockHeld /\ [Next]_vars => LockHeld'
<1> SUFFICES ASSUME TypeOK, LockHeld, [Next]_vars PROVE LockHeld'
  BY Zenon
<1>1. CASE UNCHANGED vars
  BY Zenon, <1>1, LockStays DEF vars
<1>2. ASSUME NEW p \in Procs,
             \/ \E c \in Commands : BeginUser(p, c)
             \/ BeginCleanup(p) \/ BeginHealthStop(p)
      PROVE  LockHeld'
  <2>1. UNCHANGED lock /\ pc[p] = "idle"
    BY Zenon, <1>2 DEF BeginUser, BeginCleanup, BeginHealthStop
  <2>2. pc' = [pc EXCEPT ![p] = "lock"] \/ pc' = pc
    BY Zenon, <1>2 DEF BeginUser, BeginCleanup, BeginHealthStop, Goto
  <2>3. QED
    BY Zenon, <2>1, <2>2, LockMoves, LockStays DEF Unlocked
<1>3. ASSUME NEW p \in Procs, Die(p) PROVE LockHeld'
  <2>1. pc' = [pc EXCEPT ![p] = "idle"] /\ lock' = IF lock = p THEN NoProc ELSE lock
    BY Zenon, <1>3 DEF Die
  <2>2. "idle" \in Unlocked /\ (lock # p => pc[p] \in Unlocked)
    BY Zenon DEF LockHeld, TypeOK, Unlocked
  <2>3. QED
    BY Zenon, <2>1, <2>2, LockMoves
<1>4. CASE ContainerExits \/ \E r \in Runs : Conmon(r) \/ ConmonDies(r)
  BY Zenon, <1>4, LockStays DEF ContainerExits, Conmon, ConmonReports, ConmonExits, ConmonDies
<1>5. QED
  BY <1>1, <1>2, <1>3, <1>4, PodmanLockHeld, Zenon DEF Next
-----------------------------------------------------------------------------
(* No lost update *)

\* A state agrees with itself on every field, so a copy that equals the row also
\* equals it up to the fields about to be saved.
LEMMA SameButUnsaved ==
    ASSUME NEW s \in StateType
    PROVE  s = [s EXCEPT !.State = s.State, !.PID = s.PID,
                         !.StoppedByUser = s.StoppedByUser]
  BY Zenon DEF StateType

\* The clause of CopyIsCurrent about one process.
Current(p) ==
    lock = p /\ valid[p] =>
        IF Unsaved(p)
        THEN mem[p] = [db EXCEPT !.State = mem[p].State, !.PID = mem[p].PID,
                                 !.StoppedByUser = mem[p].StoppedByUser]
        ELSE mem[p] = db

\* Only the holder of the lock can disturb it, and only about itself.
LEMMA OnlyTheHolder ==
    ASSUME TypeOK, CopyIsCurrent, NEW p \in Procs,
           \/ lock = p \/ lock' \in {p, NoProc}
           \/ lock' = lock /\ db' = db,
           \A q \in Procs : q # p => mem'[q] = mem[q] /\ valid'[q] = valid[q] /\ pc'[q] = pc[q],
           lock' \in {lock, p, NoProc},
           Current(p)'
    PROVE  CopyIsCurrent'
<1> SUFFICES ASSUME NEW q \in Procs PROVE Current(q)'
  BY Zenon DEF CopyIsCurrent, Current
<1>1. CASE q = p
  BY Zenon, <1>1
<1>2. CASE q # p /\ lock' = q
  <2>1. lock = q /\ db' = db
    BY Zenon, <1>2, ContainerAssumption
  <2>2. Current(q)
    BY Zenon DEF CopyIsCurrent, Current
  <2>3. mem'[q] = mem[q] /\ valid'[q] = valid[q] /\ Unsaved(q)' = Unsaved(q)
    BY Zenon, <1>2 DEF Unsaved
  <2>4. QED
    BY Zenon, <1>2, <2>1, <2>2, <2>3 DEF Current
<1>3. CASE lock' # q
  BY Zenon, <1>3 DEF Current
<1>4. QED
  BY Zenon, <1>1, <1>2, <1>3

\* A save makes the copy current.
LEMMA SaveIsCurrent ==
    ASSUME TypeOK, CopyIsCurrent, NEW p \in Procs, NEW s \in StateType, NEW l,
           lock = p, Save(p, s), UNCHANGED valid, lock' \in {lock, NoProc},
           pc' = [pc EXCEPT ![p] = l]
    PROVE  CopyIsCurrent'
<1>1. mem'[p] = s /\ (valid[p] => db' = s) /\ valid' = valid
  BY Zenon DEF Save, TypeOK
<1>2. Current(p)'
  BY Zenon, <1>1, SameButUnsaved DEF Current
<1>3. \A q \in Procs : q # p => mem'[q] = mem[q] /\ valid'[q] = valid[q] /\ pc'[q] = pc[q]
  BY Zenon, <1>1 DEF Save, TypeOK
<1>4. QED
  BY Zenon, <1>2, <1>3, OnlyTheHolder

\* A step that writes nothing keeps the copy current, unless it forgets a save.
LEMMA QuietIsCurrent ==
    ASSUME TypeOK, CopyIsCurrent, NEW p \in Procs, NEW l,
           UNCHANGED <<mem, db, valid>>, lock' \in {lock, NoProc},
           pc' = [pc EXCEPT ![p] = l], lock # p \/ ~Unsaved(p)
    PROVE  CopyIsCurrent'
<1>0. mem[p] \in StateType /\ db \in StateType
  BY Zenon DEF TypeOK
<1>1. Current(p)
  BY Zenon DEF CopyIsCurrent, Current
<1>2. Current(p)'
  BY Zenon, <1>0, <1>1, SameButUnsaved, ContainerAssumption DEF Current
<1>3. \A q \in Procs : q # p => mem'[q] = mem[q] /\ valid'[q] = valid[q] /\ pc'[q] = pc[q]
  BY Zenon DEF TypeOK
<1>4. QED
  BY Zenon, <1>2, <1>3, OnlyTheHolder

\* A step that changes the copy and is about to save it.
LEMMA UnsavedIsCurrent ==
    ASSUME TypeOK, CopyIsCurrent, NEW p \in Procs, lock = p, ~Unsaved(p),
           NEW l \in {"save", "save_created", "conmon"}, pc' = [pc EXCEPT ![p] = l],
           \/ mem' = [mem EXCEPT ![p].State = mem'[p].State]
           \/ mem' = [mem EXCEPT ![p].PID = mem'[p].PID]
           \/ mem' = [mem EXCEPT ![p].StoppedByUser = mem'[p].StoppedByUser],
           UNCHANGED <<db, valid, lock>>
    PROVE  CopyIsCurrent'
<1>0. mem[p] \in StateType /\ db \in StateType
  BY Zenon DEF TypeOK
<1>1. valid[p] => mem[p] = db
  BY Zenon DEF CopyIsCurrent
<1>2. \/ mem'[p] = [mem[p] EXCEPT !.State = mem'[p].State]
      \/ mem'[p] = [mem[p] EXCEPT !.PID = mem'[p].PID]
      \/ mem'[p] = [mem[p] EXCEPT !.StoppedByUser = mem'[p].StoppedByUser]
  BY Zenon DEF TypeOK
<1>3. valid[p] => mem'[p] = [db EXCEPT !.State = mem'[p].State, !.PID = mem'[p].PID,
                                       !.StoppedByUser = mem'[p].StoppedByUser]
  BY Zenon, <1>0, <1>1, <1>2 DEF StateType
<1>4. Unsaved(p)'
  BY Zenon DEF Unsaved, TypeOK
<1>5. Current(p)'
  BY Zenon, <1>3, <1>4 DEF Current
<1>6. \A q \in Procs : q # p => mem'[q] = mem[q] /\ valid'[q] = valid[q] /\ pc'[q] = pc[q]
  BY Zenon DEF TypeOK
<1>7. QED
  BY Zenon, <1>5, <1>6, OnlyTheHolder

\* cleanupRuntime saves what it changes.
LEMMA CleanupRuntimeIsCurrent ==
    ASSUME TypeOK, CopyIsCurrent, NEW p \in Procs, NEW l,
           lock = p, ~Unsaved(p), cleanupRuntime(p), UNCHANGED <<valid, lock>>,
           pc' = [pc EXCEPT ![p] = l]
    PROVE  CopyIsCurrent'
<1>1. mem[p] \in StateType /\ {"Exited", "Configured"} \subseteq States
  BY Zenon DEF TypeOK, States
<1>2. CASE StateIn(p, {"Stopped", "Created"})
  <2>1. PICK s \in StateType : Save(p, s)
    BY Zenon, <1>1, <1>2, OneField DEF cleanupRuntime
  <2>2. QED
    BY Zenon, <2>1, SaveIsCurrent
<1>3. CASE ~StateIn(p, {"Stopped", "Created"})
  BY Zenon, <1>3, QuietIsCurrent DEF cleanupRuntime
<1>4. QED
  BY Zenon, <1>2, <1>3

\* Steps of the start path.
LEMMA StartingIsCurrent ==
    ASSUME TypeOK, CopyIsCurrent, NEW p \in Procs, Starting(p)
    PROVE  CopyIsCurrent'
<1> USE DEF Goto, Fail, At, Doing, dbVars, procVars
<1>0. mem[p] \in StateType /\ 0 \in Codes /\ mem[p].RestartCount \in Nat
  BY Zenon DEF TypeOK, StateType, Codes
<1>1. CASE BeginStart(p)
  BY Zenon, <1>1, QuietIsCurrent DEF BeginStart, Unsaved
<1>2. CASE prepare(p)
  BY Zenon, <1>0, <1>2, SeveralFields, SaveIsCurrent DEF prepare
<1>3. CASE prepareFails(p)
  BY Zenon, <1>0, <1>3, SeveralFields, SaveIsCurrent DEF prepareFails
<1>4. CASE reinit(p)
  BY Zenon, <1>4, CleanupRuntimeIsCurrent DEF reinit, Unsaved
<1>5. CASE init(p)
  <2>1. mem'[p].PID = runs + 1
    BY Zenon, <1>5 DEF init, TypeOK, StateType
  <2>2. QED
    BY Zenon, <1>5, <2>1, UnsavedIsCurrent DEF init, Unsaved
<1>6. CASE initFails(p)
  BY Zenon, <1>6, QuietIsCurrent DEF initFails, Unsaved
<1>7. CASE SaveCreated(p)
  <2>1. PICK s \in StateType : Save(p, s)
    BY Zenon, <1>0, <1>7, SeveralFields DEF SaveCreated
  <2>2. QED
    BY Zenon, <1>7, <2>1, SaveIsCurrent DEF SaveCreated
<1>8. CASE start(p)
  <2>1. mem'[p].State = "Running"
    BY Zenon, <1>8 DEF start, TypeOK, StateType
  <2>2. QED
    BY Zenon, <1>8, <2>1, UnsavedIsCurrent DEF start, Unsaved
<1>9. CASE startFails(p)
  BY Zenon, <1>9, QuietIsCurrent DEF startFails, Unsaved
<1>10. CASE SaveState(p)
  BY Zenon, <1>0, <1>10, SaveIsCurrent DEF SaveState
<1>11. QED
  BY Zenon, <1>1, <1>2, <1>3, <1>4, <1>5, <1>6, <1>7, <1>8, <1>9, <1>10 DEF Starting

\* Steps of Kill, Pause and Unpause.
LEMMA SignallingIsCurrent ==
    ASSUME TypeOK, CopyIsCurrent, NEW p \in Procs, Signalling(p)
    PROVE  CopyIsCurrent'
<1> USE DEF Goto, Fail, At, Doing, dbVars, procVars
<1>1. CASE Kill(p)
  <2>1. CASE UNCHANGED mem
    BY Zenon, <1>1, <2>1, QuietIsCurrent DEF Kill, Unsaved
  <2>2. CASE mem' = [mem EXCEPT ![p].StoppedByUser = TRUE]
    <3>1. mem'[p].StoppedByUser = TRUE
      BY Zenon, <2>2 DEF TypeOK, StateType
    <3>2. QED
      BY Zenon, <1>1, <2>2, <3>1, UnsavedIsCurrent, QuietIsCurrent DEF Kill, Unsaved
  <2>3. QED
    BY Zenon, <1>1, <2>1, <2>2 DEF Kill
<1>2. ASSUME NEW c, NEW from, NEW to, NEW ociFrom, NEW ociTo,
             Freeze(p, c, from, to, ociFrom, ociTo)
      PROVE  CopyIsCurrent'
  <2>1. CASE UNCHANGED mem /\ pc' = [pc EXCEPT ![p] = "done"]
    BY Zenon, <1>2, <2>1, QuietIsCurrent DEF Freeze, Unsaved
  <2>2. CASE mem' = [mem EXCEPT ![p].State = to] /\ pc' = [pc EXCEPT ![p] = "save"]
    <3>1. mem'[p].State = to
      BY Zenon, <2>2 DEF TypeOK, StateType
    <3>2. QED
      BY Zenon, <1>2, <2>2, <3>1, UnsavedIsCurrent DEF Freeze, Unsaved
  <2>3. QED
    BY Zenon, <1>2, <2>1, <2>2 DEF Freeze
<1>3. QED
  BY Zenon, <1>1, <1>2 DEF Signalling, Pause, Unpause

\* Steps of the stop path.
LEMMA StoppingIsCurrent ==
    ASSUME TypeOK, LockHeld, CopyIsCurrent, NEW p \in Procs, Stopping(p)
    PROVE  CopyIsCurrent'
<1> USE DEF Goto, Fail, At, Doing, dbVars, procVars
<1>0. mem[p] \in StateType /\ -1 \in Codes
  BY Zenon DEF TypeOK, Codes
<1>1. CASE stop(p)
  <2>1. PICK s \in StateType : Save(p, s)
    BY Zenon, <1>0, <1>1, OneField, SeveralFields DEF stop
  <2>2. lock = p
    BY Zenon, <1>1 DEF stop, StopsFirst
  <2>3. QED
    BY Zenon, <1>1, <2>1, <2>2, SaveIsCurrent DEF stop
<1>2. CASE StopPing(p) \/ StopKill(p) \/ StopKillFails(p)
  <2>1. lock # p
    BY Zenon, <1>2 DEF LockHeld, Locked, StopPing, StopKill, StopKillFails
  <2>2. QED
    BY Zenon, <1>2, <2>1, QuietIsCurrent DEF StopPing, StopKill, StopKillFails
<1>3. CASE StopCheck(p) /\ valid[p]
  <2>1. PICK l : pc' = [pc EXCEPT ![p] = l]
    BY Zenon, <1>3 DEF StopCheck
  <2>2. QED
    BY Zenon, <1>3, <2>1, QuietIsCurrent DEF StopCheck, Unsaved
<1>4. CASE StopCheck(p) /\ ~valid[p]
  <2>1. Current(p)'
    BY Zenon, <1>4 DEF StopCheck, Current
  <2>2. \A q \in Procs : q # p => mem'[q] = mem[q] /\ valid'[q] = valid[q] /\ pc'[q] = pc[q]
    BY Zenon, <1>4 DEF StopCheck, TypeOK
  <2>3. QED
    BY Zenon, <1>4, <2>1, <2>2, OnlyTheHolder DEF StopCheck
<1>5. CASE ConmonAlive(p)
  BY Zenon, <1>0, <1>5, SaveIsCurrent DEF ConmonAlive
<1>6. CASE ConmonGone(p)
  BY Zenon, <1>0, <1>6, ExitTypes, SaveIsCurrent DEF ConmonGone
<1>7. CASE ConmonDiedEarly(p)
  BY Zenon, <1>0, <1>7, SeveralFields, SaveIsCurrent DEF ConmonDiedEarly
<1>8. CASE ExitFileAppears(p)
  BY Zenon, <1>0, <1>8, ExitTypes, SaveIsCurrent DEF ExitFileAppears
<1>9. CASE ExitFileTimeout(p)
  BY Zenon, <1>0, <1>9, SeveralFields, SaveIsCurrent DEF ExitFileTimeout
<1>10. CASE RestartNet(p)
  BY Zenon, <1>0, <1>10, OneField, SaveIsCurrent DEF RestartNet
<1>11. QED
  BY Zenon, <1>1, <1>2, <1>3, <1>4, <1>5, <1>6, <1>7, <1>8, <1>9, <1>10 DEF Stopping

\* Steps of Cleanup.
LEMMA CleaningIsCurrent ==
    ASSUME TypeOK, CopyIsCurrent, NEW p \in Procs, Cleaning(p)
    PROVE  CopyIsCurrent'
<1> USE DEF Goto, Fail, At, Doing, dbVars, procVars
<1>0. mem[p] \in StateType
  BY Zenon DEF TypeOK
<1>1. CASE Cleanup(p)
  <2>0. mem[p].RestartCount + 1 \in Nat
    <3>1. mem[p].RestartCount \in Nat
      BY Zenon, <1>0 DEF StateType
    <3>2. QED
      BY <3>1
  <2>1. [mem[p] EXCEPT !.RestartCount = @ + 1] \in StateType
    BY Zenon, <1>0, <2>0, OneField
  <2>2. UNCHANGED <<mem, db>> \/ Save(p, [mem[p] EXCEPT !.RestartCount = @ + 1])
    BY Zenon, <1>1 DEF Cleanup, handleRestartPolicy
  <2>3. PICK l : pc' = [pc EXCEPT ![p] = l]
    BY Zenon, <1>1 DEF Cleanup, handleRestartPolicy
  <2>4. UNCHANGED <<valid, lock>> /\ lock = p /\ ~Unsaved(p)
    BY Zenon, <1>1 DEF Cleanup, handleRestartPolicy, Unsaved
  <2>5. QED
    BY Zenon, <2>1, <2>2, <2>3, <2>4, SaveIsCurrent, QuietIsCurrent
<1>2. CASE CleanupNetwork(p)
  BY Zenon, <1>0, <1>2, OneField, SaveIsCurrent DEF CleanupNetwork
<1>3. CASE CleanupRuntime(p)
  BY Zenon, <1>3, CleanupRuntimeIsCurrent DEF CleanupRuntime, Unsaved
<1>4. CASE CleanupStorage(p)
  BY Zenon, <1>0, <1>4, OneField, SaveIsCurrent DEF CleanupStorage
<1>5. QED
  BY Zenon, <1>1, <1>2, <1>3, <1>4 DEF Cleaning

\* Steps of removeContainer.
LEMMA RemovingIsCurrent ==
    ASSUME TypeOK, CopyIsCurrent, NEW p \in Procs, Removing(p)
    PROVE  CopyIsCurrent'
<1> USE DEF Goto, Fail, At, Doing, dbVars, procVars
<1>0. mem[p] \in StateType /\ "Removing" \in States
  BY Zenon DEF TypeOK, States
<1>1. CASE Remove(p)
  BY Zenon, <1>1, QuietIsCurrent DEF Remove, Unsaved
<1>2. CASE RemoveCheck(p)
  BY Zenon, <1>2, QuietIsCurrent, CleanupRuntimeIsCurrent DEF RemoveCheck, Unsaved
<1>3. CASE RemoveExecSessions(p)
  BY Zenon, <1>3, QuietIsCurrent DEF RemoveExecSessions, Unsaved
<1>4. CASE MarkRemoving(p)
  BY Zenon, <1>0, <1>4, OneField, SaveIsCurrent DEF MarkRemoving
<1>5. CASE teardownStorage(p)
  BY Zenon, <1>0, <1>5, OneField, SaveIsCurrent DEF teardownStorage
<1>6. CASE RemoveFromDB(p)
  BY Zenon, <1>6, QuietIsCurrent DEF RemoveFromDB, Unsaved
<1>7. CASE FreeLock(p)
  <2>1. Current(p)'
    BY Zenon, <1>7 DEF FreeLock, Current, TypeOK
  <2>2. \A q \in Procs : q # p => mem'[q] = mem[q] /\ valid'[q] = valid[q] /\ pc'[q] = pc[q]
    BY Zenon, <1>7 DEF FreeLock, TypeOK
  <2>3. QED
    BY Zenon, <1>7, <2>1, <2>2, OnlyTheHolder DEF FreeLock
<1>8. QED
  BY Zenon, <1>1, <1>2, <1>3, <1>4, <1>5, <1>6, <1>7 DEF Removing

\* Steps of WaitForExit and Sync.
LEMMA WaitingIsCurrent ==
    ASSUME TypeOK, CopyIsCurrent, NEW p \in Procs, Waiting(p)
    PROVE  CopyIsCurrent'
<1> USE DEF Goto, Fail, At, Doing, dbVars, procVars
<1>1. CASE WaitForExit(p)
  BY Zenon, <1>1, QuietIsCurrent DEF WaitForExit, Unsaved
<1>2. CASE WaitForConmon(p)
  BY Zenon, <1>2, QuietIsCurrent DEF WaitForConmon, Unsaved
<1>3. CASE WaitResult(p) \/ Sync(p)
  BY Zenon, <1>3, QuietIsCurrent DEF WaitResult, Sync, Unsaved
<1>4. QED
  BY Zenon, <1>1, <1>2, <1>3 DEF Waiting

\* Beginning, locking, returning and dying.
LEMMA FrameIsCurrent ==
    ASSUME TypeOK, LockHeld, CopyIsCurrent, NEW p \in Procs,
           \/ \E c \in Commands : BeginUser(p, c)
           \/ BeginCleanup(p) \/ BeginHealthStop(p)
           \/ LockAndSync(p) \/ Removed(p) \/ Return(p) \/ Die(p)
    PROVE  CopyIsCurrent'
<1> USE DEF Goto, Fail, At, dbVars, procVars
<1>1. CASE \/ \E c \in Commands : BeginUser(p, c)
           \/ BeginCleanup(p) \/ BeginHealthStop(p)
  <2>1. UNCHANGED <<db, mem, lock>> /\ lock # p
    BY Zenon, <1>1 DEF BeginUser, BeginCleanup, BeginHealthStop, LockHeld, Locked
  <2>2. \A q \in Procs : q # p => mem'[q] = mem[q] /\ valid'[q] = valid[q] /\ pc'[q] = pc[q]
    BY Zenon, <1>1 DEF BeginUser, BeginCleanup, BeginHealthStop, TypeOK
  <2>3. QED
    BY Zenon, <2>1, <2>2, OnlyTheHolder DEF Current
<1>2. CASE LockAndSync(p)
  <2>0. Synced(db) \in StateType /\ db \in StateType
    BY Zenon, ExitTypes DEF TypeOK
  <2>1. lock' = p /\ lock = NoProc /\ (valid'[p] => mem'[p] = db')
    BY Zenon, <1>2 DEF LockAndSync, syncContainer, TypeOK
  <2>2. \A q \in Procs : q # p => mem'[q] = mem[q] /\ valid'[q] = valid[q] /\ pc'[q] = pc[q]
    BY Zenon, <1>2 DEF LockAndSync, syncContainer, TypeOK
  <2>3. ~Unsaved(p)'
    <3>1. AfterLock[pc[p]] \in {"body", "stop_check", "rm_mark", "wait_result"}
      BY Zenon, <1>2, PlacesAfterLock DEF LockAndSync
    <3>2. pc'[p] = AfterLock[pc[p]]
      BY Zenon, <1>2 DEF LockAndSync, TypeOK
    <3>3. QED
      BY Zenon, <3>1, <3>2 DEF Unsaved
  <2>4. QED
    BY Zenon, <2>1, <2>2, <2>3, OnlyTheHolder DEF Current
<1>3. CASE Removed(p)
  BY Zenon, <1>3, QuietIsCurrent DEF Removed, Unsaved
<1>4. CASE Return(p) \/ Die(p)
  <2>1. /\ lock' # p
        /\ lock' = NoProc \/ lock' = lock
        /\ lock = p \/ lock' = NoProc \/ (lock' = lock /\ db' = db)
    <3>0. NoProc # p
      BY Zenon, ContainerAssumption
    <3>1. CASE Return(p)
      <4>1. lock = p /\ lock' = NoProc
        BY <3>1, Zenon DEF Return
      <4>2. QED
        BY Zenon, <3>0, <4>1
    <3>2. CASE Die(p)
      BY Zenon, <3>0, <3>2 DEF Die
    <3>3. QED
      BY Zenon, <1>4, <3>1, <3>2
  <2>2. \A q \in Procs : q # p => mem'[q] = mem[q] /\ valid'[q] = valid[q] /\ pc'[q] = pc[q]
    BY Zenon, <1>4 DEF Return, Die, TypeOK
  <2>3. QED
    BY Zenon, <2>1, <2>2, OnlyTheHolder DEF Current
<1>5. QED
  BY Zenon, <1>1, <1>2, <1>3, <1>4

\* Every step keeps the copies current.
LEMMA NextIsCurrent == TypeOK /\ LockHeld /\ CopyIsCurrent /\ [Next]_vars => CopyIsCurrent'
<1> SUFFICES ASSUME TypeOK, LockHeld, CopyIsCurrent, [Next]_vars PROVE CopyIsCurrent'
  BY Zenon
<1>1. CASE UNCHANGED vars
  BY Zenon, <1>1 DEF vars, dbVars, procVars, CopyIsCurrent, Unsaved
<1>2. ASSUME NEW p \in Procs, Podman(p) PROVE CopyIsCurrent'
  BY Zenon, <1>2, FrameIsCurrent, StartingIsCurrent, SignallingIsCurrent, StoppingIsCurrent,
     CleaningIsCurrent, RemovingIsCurrent, WaitingIsCurrent, Zenon DEF Podman
<1>3. CASE ContainerExits \/ \E r \in Runs : Conmon(r) \/ ConmonDies(r)
  <2>1. UNCHANGED <<db, mem, valid, lock, pc>>
    BY Zenon, <1>3 DEF ContainerExits, Conmon, ConmonReports, ConmonExits, ConmonDies, dbVars,
       procVars
  <2>2. QED
    BY Zenon, <2>1 DEF CopyIsCurrent, Unsaved
<1>4. QED
  BY <1>1, <1>2, <1>3, FrameIsCurrent, Zenon DEF Next

\* No lost update, for any number of processes and commands: whoever is inside the
\* critical section works on the row as the database has it, also after stop,
\* WaitForExit or removeAllExecSessions gave the lock up and took it again.
THEOREM NoLostUpdate == Spec => []CopyIsCurrent
<1>1. Init => LockHeld /\ CopyIsCurrent
  BY ContainerAssumption DEF Init, LockHeld, CopyIsCurrent, Locked
<1>2. QED
  BY <1>1, InitTypeOK, NextTypeOK, NextLockHeld, NextIsCurrent, PTL DEF Spec


-----------------------------------------------------------------------------
(* The lock is freed once *)

CleanupPath == {"cl_net", "cl_runtime", "cl_storage"}
RemovalPath == {"rm_exec", "rm_mark", "rm_storage", "rm_db"}

\* A process inside the critical section with a valid handle has a container that
\* exists; one that is past removeContainer's checks has one whatever its handle
\* says; and between the removal of the row and Free, nobody has freed the lock.
Sound(p) ==
    /\ pc[p] # "exec_lock"
    /\ pc[p] \in Locked \ {"rm_free"} /\ valid[p] => exists
    /\ pc[p] \in CleanupPath /\ cmd[p] \in Removers => exists \/ err[p]
    /\ pc[p] \in RemovalPath => exists
    /\ pc[p] = "rm_free" => ~exists /\ freed = 0

RemovalInv ==
    /\ \A p \in Procs : Sound(p)
    /\ exists => freed = 0
    /\ freed <= 1

\* A step of p that leaves the others' control state alone only has to care for p:
\* the others are outside the critical section while p is inside.
LEMMA OthersAreSound ==
    ASSUME TypeOK, LockHeld, RemovalInv, NEW p \in Procs,
           \A q \in Procs : q # p => /\ pc'[q] = pc[q] /\ cmd'[q] = cmd[q]
                                     /\ valid'[q] = valid[q] /\ err'[q] = err[q],
           lock = p \/ UNCHANGED <<exists, freed>>,
           Sound(p)', exists' => freed' = 0, freed' <= 1
    PROVE  RemovalInv'
<1> SUFFICES ASSUME NEW q \in Procs, q # p PROVE Sound(q)'
  BY Zenon DEF RemovalInv
<1>1. Sound(q)
  BY Zenon DEF RemovalInv
<1>2. CASE lock = p
  <2>1. pc[q] \notin Locked
    BY Zenon, <1>2 DEF LockHeld
  <2>2. pc'[q] \notin Locked /\ pc'[q] # "exec_lock"
    BY Zenon, <1>1, <2>1 DEF Sound
  <2>3. QED
    BY Zenon, <2>2 DEF Sound, Locked, CleanupPath, RemovalPath
<1>3. CASE UNCHANGED <<exists, freed>>
  BY Zenon, <1>1, <1>3 DEF Sound
<1>4. QED
  BY Zenon, <1>2, <1>3

\* The usual step: p goes on in the critical section, or leaves it, and gets to the
\* cleanup and removal of a container only if that container exists.
LEMMA UsualStep ==
    ASSUME TypeOK, LockHeld, RemovalInv, NEW p \in Procs, NEW l \in Unlocked \cup Locked,
           pc' = [pc EXCEPT ![p] = l],
           err' = err \/ err' = [err EXCEPT ![p] = TRUE],
           UNCHANGED <<exists, freed, valid, cmd>>,
           l \in Locked => pc[p] \in Locked \ {"rm_free"},
           l \notin {"rm_free", "exec_lock"},
           l \in RemovalPath => exists,
           l \in CleanupPath /\ cmd[p] \in Removers => exists \/ err'[p]
    PROVE  RemovalInv'
<1>1. pc'[p] = l
  BY Zenon DEF TypeOK
<1>2. \A q \in Procs : q # p => /\ pc'[q] = pc[q] /\ cmd'[q] = cmd[q]
                                /\ valid'[q] = valid[q] /\ err'[q] = err[q]
  BY Zenon DEF TypeOK
<1>3. Sound(p)
  BY Zenon DEF RemovalInv
<1>4. Sound(p)'
  BY Zenon, <1>1, <1>3 DEF Sound
<1>5. (exists' => freed' = 0) /\ freed' <= 1
  BY Zenon DEF RemovalInv
<1>6. QED
  BY Zenon, <1>2, <1>4, <1>5, OthersAreSound

\* Neither starting nor signalling comes near the removal but by failing.
LEMMA StartingKeepsRemoval ==
    ASSUME TypeOK, LockHeld, RemovalInv, NEW p \in Procs, Starting(p) \/ Signalling(p)
    PROVE  RemovalInv'
<1> USE DEF Goto, Fail, At, Doing, Locked, CleanupPath, RemovalPath, rmVars, procVars, dbVars
<1>0. err \in [Procs -> BOOLEAN]
  BY Zenon DEF TypeOK
<1>1. CASE BeginStart(p)
  BY Zenon, <1>1, UsualStep DEF BeginStart
<1>2. CASE prepare(p)
  <2> DEFINE l == CASE StateIn(p, {"Stopped"}) -> "reinit"
                    [] StateIn(p, {"Configured", "Exited"}) -> "create"
                    [] OTHER -> "start"
  <2>1. pc' = [pc EXCEPT ![p] = l]
    BY <1>2, Zenon DEF prepare
  <2>2. l \in {"reinit", "create", "start"}
    BY Zenon
  <2> HIDE DEF l
  <2>3. QED
    BY Zenon, <1>2, <2>1, <2>2, UsualStep DEF prepare
<1>3. CASE prepareFails(p)
  <2>1. err'[p] /\ pc[p] = "prepare" /\ pc' = [pc EXCEPT ![p] = "cl_net"]
    BY Zenon, <1>0, <1>3 DEF prepareFails
  <2>2. QED
    BY Zenon, <1>3, <2>1, UsualStep DEF prepareFails
<1>4. CASE reinit(p)
  BY Zenon, <1>4, UsualStep DEF reinit
<1>5. CASE init(p) \/ start(p)
  BY <1>5, UsualStep DEF init, start
<1>6. CASE initFails(p)
  <2>1. \E l \in {"done", "cl_net"} : pc' = [pc EXCEPT ![p] = l]
    BY Zenon, <1>6 DEF initFails
  <2>2. err' = [err EXCEPT ![p] = TRUE] /\ err'[p]
    BY Zenon, <1>0, <1>6 DEF initFails
  <2>3. QED
    BY Zenon, <1>6, <2>1, <2>2, UsualStep DEF initFails
<1>7. CASE SaveCreated(p)
  <2>1. \E l \in {"done", "start"} : pc' = [pc EXCEPT ![p] = l]
    BY Zenon, <1>7 DEF SaveCreated
  <2>2. QED
    BY Zenon, <1>7, <2>1, UsualStep DEF SaveCreated
<1>8. CASE startFails(p)
  <2>1. \E l \in {"done", "cl_net"} : pc' = [pc EXCEPT ![p] = l]
    BY Zenon, <1>8 DEF startFails
  <2>2. err' = [err EXCEPT ![p] = TRUE] /\ err'[p]
    BY Zenon, <1>0, <1>8 DEF startFails
  <2>3. QED
    BY Zenon, <1>8, <2>1, <2>2, UsualStep DEF startFails
<1>9. CASE SaveState(p)
  BY Zenon, <1>9, UsualStep DEF SaveState
<1>10. CASE Signalling(p)
  BY <1>10, UsualStep DEF Signalling, Kill, Pause, Unpause, Freeze
<1>11. QED
  BY <1>1, <1>2, <1>3, <1>4, <1>5, <1>6, <1>7, <1>8, <1>9, <1>10, Zenon DEF Starting

\* stop leads back to removeContainer's check of the database, never past it.
LEMMA StoppingKeepsRemoval ==
    ASSUME TypeOK, LockHeld, RemovalInv, NEW p \in Procs, Stopping(p)
    PROVE  RemovalInv'
<1> USE DEF Goto, Fail, At, Doing, rmVars, procVars, dbVars
<1>0. err \in [Procs -> BOOLEAN] /\ AfterStop(p) \in {"restart_net", "rm_check", "done"}
  BY Zenon DEF TypeOK, AfterStop
<1>a. {"restart_net", "rm_check", "done", "conmon", "exitwait", "prepare", "stop_check"}
        \subseteq Locked \ ({"rm_free"} \cup RemovalPath \cup CleanupPath)
  BY Zenon DEF Locked, RemovalPath, CleanupPath
<1>b. {"stop_ping", "stop_kill", "stop_lock"}
        \subseteq Unlocked \ (Locked \cup RemovalPath \cup CleanupPath)
  BY Zenon DEF Unlocked, Locked, RemovalPath, CleanupPath
<1>1. CASE stop(p)
  <2>1. pc[p] = "body"
    BY Zenon, <1>1 DEF stop, StopsFirst
  <2>2. QED
    BY <1>1, <2>1, UsualStep DEF stop, Locked, Unlocked, RemovalPath, CleanupPath
<1>2. CASE StopPing(p) \/ StopKill(p) \/ StopKillFails(p)
  BY Zenon, <1>2, <1>b, UsualStep DEF StopPing, StopKill, StopKillFails
<1>3. CASE StopCheck(p)
  <2>1. \E l \in {"restart_net", "rm_check", "done", "conmon"} : pc' = [pc EXCEPT ![p] = l]
    BY Zenon, <1>0, <1>3 DEF StopCheck
  <2>2. QED
    BY Zenon, <1>3, <1>a, <2>1, UsualStep DEF StopCheck
<1>4. CASE ConmonAlive(p) \/ ExitFileTimeout(p) \/ RestartNet(p)
  BY Zenon, <1>4, <1>a, UsualStep DEF ConmonAlive, ExitFileTimeout, RestartNet
<1>5. CASE ConmonGone(p) \/ ExitFileAppears(p)
  BY Zenon, <1>0, <1>5, <1>a, UsualStep DEF ConmonGone, ExitFileAppears
<1>6. CASE ConmonDiedEarly(p)
  BY Zenon, <1>0, <1>6, UsualStep DEF ConmonDiedEarly, Locked, RemovalPath, CleanupPath
<1>7. QED
  BY <1>1, <1>2, <1>3, <1>4, <1>5, <1>6, Zenon DEF Stopping

\* cleanup serves removal too, and hands on that the container exists.
LEMMA CleaningKeepsRemoval ==
    ASSUME TypeOK, LockHeld, RemovalInv, NEW p \in Procs, Cleaning(p) \/ Waiting(p)
    PROVE  RemovalInv'
<1> USE DEF Goto, Fail, At, Doing, Locked, Unlocked, CleanupPath, RemovalPath, rmVars,
            procVars, dbVars
<1>0. Sound(p)
  BY Zenon DEF RemovalInv
<1>1. CASE Cleanup(p)
  <2>1. cmd[p] \notin Removers /\ pc[p] = "body"
    BY Zenon, <1>1 DEF Cleanup, Cleaners, Removers
  <2>2. QED
    BY Zenon, <1>1, <2>1, UsualStep DEF Cleanup, handleRestartPolicy
<1>2. CASE CleanupNetwork(p) \/ CleanupRuntime(p)
  BY <1>0, <1>2, UsualStep DEF CleanupNetwork, CleanupRuntime, Sound
<1>3. CASE CleanupStorage(p)
  <2>1. CASE cmd[p] \in Removers /\ ~err[p]
    <3>1. pc' = [pc EXCEPT ![p] = "rm_exec"]
      BY Zenon, <1>3, <2>1 DEF CleanupStorage
    <3>2. exists /\ pc[p] = "cl_storage"
      BY Zenon, <1>0, <1>3, <2>1 DEF CleanupStorage, Sound
    <3>3. UNCHANGED <<exists, freed, valid, cmd, err>>
      BY Zenon, <1>3 DEF CleanupStorage
    <3>4. QED
      BY Zenon, <3>1, <3>2, <3>3, UsualStep
  <2>2. CASE ~(cmd[p] \in Removers /\ ~err[p])
    <3>1. pc' = [pc EXCEPT ![p] = "done"]
      BY Zenon, <1>3, <2>2 DEF CleanupStorage
    <3>2. UNCHANGED <<exists, freed, valid, cmd, err>> /\ pc[p] = "cl_storage"
      BY Zenon, <1>3 DEF CleanupStorage
    <3>3. QED
      BY Zenon, <3>1, <3>2, UsualStep
  <2>3. QED
    BY Zenon, <2>1, <2>2
<1>4. CASE WaitForExit(p)
  <2>1. UNCHANGED <<exists, freed, valid, cmd>> /\ pc[p] = "body"
    BY Zenon, <1>4 DEF WaitForExit
  <2>2. \/ pc' = [pc EXCEPT ![p] = "wait_conmon"] /\ err' = err
        \/ pc' = [pc EXCEPT ![p] = "done"] /\ (err' = err \/ err' = [err EXCEPT ![p] = TRUE])
    BY Zenon, <1>4 DEF WaitForExit
  <2>3. CASE pc' = [pc EXCEPT ![p] = "wait_conmon"] /\ err' = err
    BY Zenon, <2>1, <2>3, UsualStep
  <2>4. CASE pc' = [pc EXCEPT ![p] = "done"] /\ err' = err
    BY Zenon, <2>1, <2>4, UsualStep
  <2>5. CASE pc' = [pc EXCEPT ![p] = "done"] /\ err' = [err EXCEPT ![p] = TRUE]
    BY Zenon, <2>1, <2>5, UsualStep
  <2>6. QED
    BY Zenon, <2>2, <2>3, <2>4, <2>5
<1>5. CASE WaitForConmon(p)
  <2>1. pc' = [pc EXCEPT ![p] = "wait_lock"] /\ UNCHANGED <<err, exists, freed, valid, cmd>>
    BY Zenon, <1>5 DEF WaitForConmon
  <2>2. QED
    BY Zenon, <2>1, UsualStep
<1>6. CASE WaitResult(p)
  BY ZenonT(30), <1>6, UsualStep DEF WaitResult
<1>7. CASE Sync(p)
  BY ZenonT(30), <1>7, UsualStep DEF Sync
<1>8. QED
  BY <1>1, <1>2, <1>3, <1>4, <1>5, <1>6, <1>7, Zenon DEF Cleaning, Waiting

\* removeContainer: whoever gets to Free has removed the row, and is the first.
LEMMA RemovingKeepsRemoval ==
    ASSUME ~ExecBusy, TypeOK, LockHeld, RemovalInv, NEW p \in Procs, Removing(p)
    PROVE  RemovalInv'
<1> USE DEF Goto, Fail, At, Doing, rmVars, procVars, dbVars
<1>0. Sound(p)
  BY Zenon DEF RemovalInv
<1>1. CASE Remove(p)
  <2>1. exists /\ pc[p] = "body"
    BY Zenon, <1>0, <1>1 DEF Remove, Sound, Locked
  <2>2. \E l \in {"exitwait", "cl_net", "done"} : pc' = [pc EXCEPT ![p] = l]
    BY Zenon, <1>1 DEF Remove
  <2>3. QED
    BY Zenon, <1>1, <2>1, <2>2, UsualStep DEF Remove, Locked, RemovalPath, CleanupPath
<1>2. CASE RemoveCheck(p)
  BY Zenon, <1>2, UsualStep DEF RemoveCheck, Locked, RemovalPath, CleanupPath
<1>3. CASE RemoveExecSessions(p) \/ MarkRemoving(p) \/ teardownStorage(p)
  BY <1>0, <1>3, UsualStep DEF RemoveExecSessions, MarkRemoving, teardownStorage, Sound,
     Locked, RemovalPath, CleanupPath
<1>4. CASE RemoveFromDB(p)
  <2>1. exists /\ freed = 0
    BY Zenon, <1>0, <1>4 DEF RemoveFromDB, Sound, RemovalPath, RemovalInv
  <2>2. pc'[p] = "rm_free" /\ ~exists' /\ freed' = 0
    BY Zenon, <1>4, <2>1 DEF RemoveFromDB, TypeOK
  <2>3. Sound(p)'
    BY Zenon, <2>2 DEF Sound, CleanupPath, RemovalPath
  <2>4. QED
    <3>1. \A q \in Procs : q # p => /\ pc'[q] = pc[q] /\ cmd'[q] = cmd[q]
                                    /\ valid'[q] = valid[q] /\ err'[q] = err[q]
      BY Zenon, <1>4 DEF RemoveFromDB, TypeOK
    <3>2. lock = p /\ freed' <= 1
      BY <1>4, <2>2 DEF RemoveFromDB
    <3>3. QED
      BY Zenon, <2>2, <2>3, <3>1, <3>2, OthersAreSound
<1>5. CASE FreeLock(p)
  <2>1. ~exists /\ freed = 0
    BY Zenon, <1>0, <1>5 DEF FreeLock, Sound
  <2>2. pc'[p] = "done" /\ ~exists' /\ freed' = 1 /\ ~valid'[p]
    <3>1. pc' = [pc EXCEPT ![p] = "done"] /\ valid' = [valid EXCEPT ![p] = FALSE]
          /\ exists' = exists /\ freed' = freed + 1
      BY <1>5, Zenon DEF FreeLock
    <3>2. pc'[p] = "done" /\ ~valid'[p]
      BY <3>1, Zenon DEF TypeOK
    <3>3. freed' = 1
      BY <2>1, <3>1
    <3>4. QED
      BY <2>1, <3>1, <3>2, <3>3, Zenon
  <2>3. Sound(p)'
    BY Zenon, <2>2 DEF Sound, CleanupPath, RemovalPath
  <2>4. QED
    <3>1. \A q \in Procs : q # p => /\ pc'[q] = pc[q] /\ cmd'[q] = cmd[q]
                                    /\ valid'[q] = valid[q] /\ err'[q] = err[q]
      BY Zenon, <1>5 DEF FreeLock, TypeOK
    <3>2. lock = p /\ freed' <= 1
      BY <1>5, <2>2 DEF FreeLock
    <3>3. QED
      BY Zenon, <2>2, <2>3, <3>1, <3>2, OthersAreSound
<1>6. QED
  BY <1>1, <1>2, <1>3, <1>4, <1>5, Zenon DEF Removing

\* Taking the lock makes the handle's validity agree with the database; returning
\* and dying leave nothing behind.
LEMMA FrameKeepsRemoval ==
    ASSUME TypeOK, LockHeld, RemovalInv, NEW p \in Procs,
           \/ \E c \in Commands : BeginUser(p, c)
           \/ BeginCleanup(p) \/ BeginHealthStop(p) \/ LockAndSync(p) \/ Removed(p)
           \/ Return(p) \/ Die(p)
    PROVE  RemovalInv'
<1> USE DEF Goto, Fail, At, rmVars, procVars, dbVars
<1>0. (exists => freed = 0) /\ freed <= 1 /\ Sound(p)
  BY Zenon DEF RemovalInv
<1>1. CASE \/ \E c \in Commands : BeginUser(p, c)
           \/ BeginCleanup(p) \/ BeginHealthStop(p) \/ Return(p) \/ Die(p)
  <2>1. UNCHANGED <<exists, freed>>
    BY Zenon, <1>1 DEF BeginUser, BeginCleanup, BeginHealthStop, Return, Die
  <2>2. pc'[p] \in {"idle", "lock"}
    BY Zenon, <1>1 DEF BeginUser, BeginCleanup, BeginHealthStop, Return, Die, TypeOK
  <2>3. \A q \in Procs : q # p => /\ pc'[q] = pc[q] /\ cmd'[q] = cmd[q]
                                  /\ valid'[q] = valid[q] /\ err'[q] = err[q]
    <3>1. CASE \/ \E c \in Commands : BeginUser(p, c)
               \/ BeginCleanup(p) \/ BeginHealthStop(p)
      BY Zenon, <3>1 DEF BeginUser, BeginCleanup, BeginHealthStop, TypeOK
    <3>2. CASE Return(p)
      BY Zenon, <3>2 DEF Return, TypeOK
    <3>3. CASE Die(p)
      BY Zenon, <3>3 DEF Die, TypeOK
    <3>4. QED
      BY Zenon, <1>1, <3>1, <3>2, <3>3
  <2>4. Sound(p)'
    BY Zenon, <2>2 DEF Sound, Locked, CleanupPath, RemovalPath
  <2>5. QED
    BY Zenon, <1>0, <2>1, <2>3, <2>4, OthersAreSound
<1>2. CASE LockAndSync(p)
  <2>1. UNCHANGED <<exists, freed>>
    BY Zenon, <1>2 DEF LockAndSync
  <2>2. pc'[p] \in {"body", "stop_check", "wait_result"}
    <3>1. pc[p] \in DOMAIN AfterLock /\ pc[p] # "exec_lock"
      BY Zenon, <1>0, <1>2 DEF LockAndSync, Sound
    <3>2. AfterLock[pc[p]] \in {"body", "stop_check", "wait_result"}
      BY Zenon, <3>1, PlacesAfterLock
    <3>3. QED
      BY Zenon, <1>2, <3>2 DEF LockAndSync, TypeOK
  <2>3. \A q \in Procs : q # p => /\ pc'[q] = pc[q] /\ cmd'[q] = cmd[q]
                                  /\ valid'[q] = valid[q] /\ err'[q] = err[q]
    BY Zenon, <1>2 DEF LockAndSync, syncContainer, TypeOK
  <2>4. valid'[p] => exists
    BY Zenon, <1>2 DEF LockAndSync, syncContainer, TypeOK
  <2>5. Sound(p)'
    BY Zenon, <2>1, <2>2, <2>4 DEF Sound, CleanupPath, RemovalPath
  <2>6. QED
    BY Zenon, <1>0, <2>1, <2>3, <2>5, OthersAreSound
<1>3. CASE Removed(p)
  BY Zenon, <1>3, UsualStep DEF Removed, Locked, CleanupPath, RemovalPath
<1>4. QED
  BY Zenon, <1>1, <1>2, <1>3

\* The container's process and conmon have no part in it.
LEMMA NextKeepsRemoval ==
    ASSUME ~ExecBusy, TypeOK, LockHeld, RemovalInv, [Next]_vars
    PROVE  RemovalInv'
<1>1. CASE UNCHANGED vars
  BY Zenon, <1>1 DEF vars, dbVars, rmVars, procVars, RemovalInv, Sound
<1>2. ASSUME NEW p \in Procs, Podman(p) PROVE RemovalInv'
  BY Zenon, <1>2, StartingKeepsRemoval, StoppingKeepsRemoval, CleaningKeepsRemoval,
     RemovingKeepsRemoval, FrameKeepsRemoval, Zenon DEF Podman
<1>3. CASE ContainerExits \/ \E r \in Runs : Conmon(r) \/ ConmonDies(r)
  <2>1. UNCHANGED <<exists, freed, valid, cmd, pc, err>>
    BY Zenon, <1>3 DEF ContainerExits, Conmon, ConmonReports, ConmonExits, ConmonDies, dbVars,
       rmVars, procVars
  <2>2. QED
    BY Zenon, <2>1 DEF RemovalInv, Sound
<1>4. QED
  BY <1>1, <1>2, <1>3, FrameKeepsRemoval, Zenon DEF Next

\* However many processes remove the container at once, and whichever of them are
\* killed on the way, its lock goes back to the lock manager at most once, as long
\* as no exec bundle is busy (removeContainer, runtime_ctr.go).
THEOREM FreedAtMostOnce == ASSUME ~ExecBusy PROVE Spec => []LockFreedOnce
<1>1. Init => LockHeld /\ RemovalInv
  BY ContainerAssumption DEF Init, LockHeld, Locked, RemovalInv, Sound, CleanupPath,
     RemovalPath
<1>2. RemovalInv => LockFreedOnce
  BY Zenon DEF RemovalInv, LockFreedOnce
<1>3. TypeOK /\ LockHeld /\ RemovalInv /\ [Next]_vars => RemovalInv'
  BY Zenon, NextKeepsRemoval
<1>4. QED
  BY <1>1, <1>2, <1>3, InitTypeOK, NextTypeOK, NextLockHeld, PTL DEF Spec
-----------------------------------------------------------------------------
(* The retry limit *)

\* No copy, however stale, counts more restarts than the limit.
RetryInv ==
    /\ db.RestartCount <= RestartRetries
    /\ \A p \in Procs : mem[p].RestartCount <= RestartRetries

\* Only SaveCreated and handleRestartPolicy write the count.
LEMMA OtherFields ==
    ASSUME NEW s \in StateType, NEW v, NEW w
    PROVE  /\ [s EXCEPT !.State = v].RestartCount = s.RestartCount
           /\ [s EXCEPT !.PID = v].RestartCount = s.RestartCount
           /\ [s EXCEPT !.StoppedByUser = v].RestartCount = s.RestartCount
           /\ [s EXCEPT !.RestartPolicyMatch = v].RestartCount = s.RestartCount
           /\ [s EXCEPT !.Mounted = v].RestartCount = s.RestartCount
           /\ [s EXCEPT !.NetNS = v].RestartCount = s.RestartCount
           /\ [s EXCEPT !.Mounted = v, !.NetNS = v].RestartCount = s.RestartCount
           /\ [s EXCEPT !.StoppedByUser = v, !.State = w].RestartCount = s.RestartCount
           /\ [s EXCEPT !.State = v, !.ExitCode = w].RestartCount = s.RestartCount
           /\ [s EXCEPT !.State = v, !.PID = 0, !.ExitCode = w].RestartCount = s.RestartCount
  BY Zenon DEF StateType

\* syncContainer does not either.
LEMMA SyncKeepsCount ==
    ASSUME TypeOK, NEW s \in StateType
    PROVE  /\ checkExitFile(s).RestartCount = s.RestartCount
           /\ Synced(s).RestartCount = s.RestartCount
<1>1. checkExitFile(s).RestartCount = s.RestartCount
  BY OtherFields DEF checkExitFile
<1>2. checkExitFile(s) \in StateType
  BY Zenon, ExitTypes
<1>3. QED
  BY <1>1, <1>2, OtherFields DEF Synced

\* A step that gives p a copy within the limit, and the row that copy or nothing.
LEMMA CopyKeepsLimit ==
    ASSUME TypeOK, RetryInv, NEW p \in Procs, NEW s, s.RestartCount <= RestartRetries,
           mem' = [mem EXCEPT ![p] = s], db' = s \/ db' = db
    PROVE  RetryInv'
  BY Zenon DEF TypeOK, RetryInv

\* In particular a save.
LEMMA SaveKeepsLimit ==
    ASSUME TypeOK, RetryInv, NEW p \in Procs, NEW s, s.RestartCount <= RestartRetries,
           Save(p, s)
    PROVE  RetryInv'
  BY Zenon, CopyKeepsLimit DEF Save

\* A step that leaves copies and row alone.
LEMMA QuietKeepsLimit == ASSUME RetryInv, UNCHANGED <<mem, db>> PROVE RetryInv'
  BY Zenon DEF RetryInv

\* cleanupRuntime keeps the count.
LEMMA CleanupRuntimeKeepsLimit ==
    ASSUME TypeOK, RetryInv, NEW p \in Procs, cleanupRuntime(p)
    PROVE  RetryInv'
<1>1. mem[p] \in StateType /\ mem[p].RestartCount <= RestartRetries
  BY Zenon DEF TypeOK, RetryInv
<1>2. CASE StateIn(p, {"Stopped", "Created"})
  BY Zenon, <1>1, <1>2, OtherFields, SaveKeepsLimit DEF cleanupRuntime
<1>3. CASE ~StateIn(p, {"Stopped", "Created"})
  BY Zenon, <1>3, QuietKeepsLimit DEF cleanupRuntime
<1>4. QED
  BY Zenon, <1>2, <1>3

\* The policy counts a restart only below the limit.
LEMMA RestartKeepsLimit ==
    ASSUME ~HealthRestart, RestartPolicy = "on-failure", RestartRetries > 0,
           TypeOK, RetryInv, NEW p \in Procs, handleRestartPolicy(p)
    PROVE  RetryInv'
<1>0. mem[p] \in StateType
  BY Zenon DEF TypeOK
<1>1. CASE shouldRestart(mem[p])
  <2>1. mem[p].RestartCount < RestartRetries
    BY Zenon, <1>1 DEF shouldRestart
  <2>2. mem[p].RestartCount \in Nat /\ RestartRetries \in Nat
    BY Zenon, <1>0, ContainerAssumption DEF StateType
  <2>3. mem[p].RestartCount + 1 <= RestartRetries
    BY <2>1, <2>2
  <2>4. [mem[p] EXCEPT !.RestartCount = @ + 1].RestartCount = mem[p].RestartCount + 1
    BY Zenon, <1>0 DEF StateType
  <2>5. QED
    BY Zenon, <1>1, <2>3, <2>4, SaveKeepsLimit DEF handleRestartPolicy
<1>2. CASE ~shouldRestart(mem[p])
  BY Zenon, <1>2, QuietKeepsLimit DEF handleRestartPolicy
<1>3. QED
  BY Zenon, <1>1, <1>2

\* Every step of a podman process keeps to the limit.
LEMMA PodmanKeepsLimit ==
    ASSUME ~HealthRestart, RestartPolicy = "on-failure", RestartRetries > 0,
           TypeOK, RetryInv, NEW p \in Procs, Podman(p)
    PROVE  RetryInv'
<1>0. /\ mem[p] \in StateType /\ mem[p].RestartCount <= RestartRetries
      /\ db \in StateType /\ db.RestartCount <= RestartRetries
      /\ 0 <= RestartRetries
  <2>1. 0 <= RestartRetries
    BY ContainerAssumption
  <2>2. QED
    BY Zenon, <2>1 DEF TypeOK, RetryInv
<1>1. CASE LockAndSync(p)
  BY Zenon, <1>0, <1>1, SyncKeepsCount, CopyKeepsLimit, QuietKeepsLimit DEF LockAndSync, syncContainer
<1>2. CASE Starting(p)
  <2>1. CASE BeginStart(p) \/ startFails(p)
    BY Zenon, <2>1, QuietKeepsLimit DEF BeginStart, startFails, dbVars
  <2>2. CASE initFails(p)
    BY Zenon, <2>2, QuietKeepsLimit DEF initFails, dbVars
  <2>3. CASE prepare(p)
    BY Zenon, <1>0, <2>3, OtherFields, SaveKeepsLimit DEF prepare
  <2>4. CASE prepareFails(p)
    BY Zenon, <1>0, <2>4, OtherFields, SaveKeepsLimit DEF prepareFails
  <2>5. CASE reinit(p)
    BY Zenon, <2>5, CleanupRuntimeKeepsLimit DEF reinit
  <2>6. CASE init(p)
    BY Zenon, <1>0, <2>6, OtherFields, CopyKeepsLimit DEF init, dbVars
  <2>7. CASE SaveCreated(p)
    <3> DEFINE n == IF cmd[p] \in Cleaners THEN mem[p].RestartCount ELSE 0
               s == [mem[p] EXCEPT !.State = "Created", !.ExitCode = 0,
                        !.StoppedByUser = FALSE, !.RestartPolicyMatch = FALSE,
                        !.RestartCount = n]
    <3>1. n <= RestartRetries
      BY Zenon, <1>0
    <3>2. s.RestartCount = n
      BY Zenon, <1>0 DEF StateType
    <3>3. Save(p, s)
      BY <2>7, Zenon DEF SaveCreated
    <3> HIDE DEF n, s
    <3>4. QED
      BY Zenon, <3>1, <3>2, <3>3, SaveKeepsLimit
  <2>8. CASE start(p)
    BY Zenon, <1>0, <2>8, OtherFields, CopyKeepsLimit DEF start, dbVars
  <2>9. CASE SaveState(p)
    BY Zenon, <1>0, <2>9, SaveKeepsLimit DEF SaveState
  <2>10. QED
    BY <1>2, <2>1, <2>2, <2>3, <2>4, <2>5, <2>6, <2>7, <2>8, <2>9, Zenon DEF Starting
<1>3. CASE Signalling(p)
  <2>1. CASE Kill(p)
    BY Zenon, <1>0, <2>1, OtherFields, CopyKeepsLimit, QuietKeepsLimit DEF Kill, dbVars
  <2>2. CASE Pause(p)
    BY Zenon, <1>0, <2>2, OtherFields, CopyKeepsLimit, QuietKeepsLimit DEF Pause, Freeze, dbVars
  <2>3. CASE Unpause(p)
    BY Zenon, <1>0, <2>3, OtherFields, CopyKeepsLimit, QuietKeepsLimit DEF Unpause, Freeze, dbVars
  <2>4. QED
    BY <1>3, <2>1, <2>2, <2>3, Zenon DEF Signalling
<1>4. CASE Stopping(p)
  <2>1. CASE stop(p)
    <3>1. \/ Save(p, [mem[p] EXCEPT !.StoppedByUser = TRUE, !.State = "Stopping"])
          \/ Save(p, [mem[p] EXCEPT !.StoppedByUser = TRUE])
      BY <2>1, Zenon DEF stop
    <3>2. [mem[p] EXCEPT !.StoppedByUser = TRUE, !.State = "Stopping"].RestartCount <= RestartRetries
      BY Zenon, <1>0 DEF StateType
    <3>3. [mem[p] EXCEPT !.StoppedByUser = TRUE].RestartCount <= RestartRetries
      BY Zenon, <1>0 DEF StateType
    <3>4. QED
      BY Zenon, <3>1, <3>2, <3>3, SaveKeepsLimit
  <2>2. CASE StopPing(p) \/ StopKill(p) \/ StopKillFails(p)
    BY Zenon, <2>2, QuietKeepsLimit DEF StopPing, StopKill, StopKillFails, dbVars
  <2>3. CASE StopCheck(p)
    BY Zenon, <1>0, <2>3, OtherFields, CopyKeepsLimit, QuietKeepsLimit DEF StopCheck, dbVars
  <2>4. CASE ConmonAlive(p)
    BY Zenon, <1>0, <2>4, SaveKeepsLimit DEF ConmonAlive
  <2>5. CASE ConmonGone(p) \/ ExitFileAppears(p)
    BY Zenon, <1>0, <2>5, SyncKeepsCount, SaveKeepsLimit DEF ConmonGone, ExitFileAppears
  <2>6. CASE ConmonDiedEarly(p) \/ ExitFileTimeout(p)
    <3>1. \/ Save(p, [mem[p] EXCEPT !.State = "Stopped", !.PID = 0, !.ExitCode = -1])
          \/ Save(p, [mem[p] EXCEPT !.State = "Stopped", !.ExitCode = -1])
      BY <2>6, Zenon DEF ConmonDiedEarly, ExitFileTimeout
    <3>2. [mem[p] EXCEPT !.State = "Stopped", !.PID = 0, !.ExitCode = -1].RestartCount <= RestartRetries
      BY Zenon, <1>0 DEF StateType
    <3>3. [mem[p] EXCEPT !.State = "Stopped", !.ExitCode = -1].RestartCount <= RestartRetries
      BY Zenon, <1>0 DEF StateType
    <3>4. QED
      BY Zenon, <3>1, <3>2, <3>3, SaveKeepsLimit
  <2>7. CASE RestartNet(p)
    BY Zenon, <1>0, <2>7, OtherFields, SaveKeepsLimit DEF RestartNet
  <2>8. QED
    BY <1>4, <2>1, <2>2, <2>3, <2>4, <2>5, <2>6, <2>7, Zenon DEF Stopping
<1>5. CASE Cleaning(p)
  <2>1. CASE Cleanup(p)
    BY Zenon, <2>1, RestartKeepsLimit, QuietKeepsLimit DEF Cleanup
  <2>2. CASE CleanupRuntime(p)
    BY Zenon, <2>2, CleanupRuntimeKeepsLimit DEF CleanupRuntime
  <2>3. CASE CleanupNetwork(p)
    BY Zenon, <1>0, <2>3, OtherFields, SaveKeepsLimit DEF CleanupNetwork
  <2>4. CASE CleanupStorage(p)
    BY Zenon, <1>0, <2>4, OtherFields, SaveKeepsLimit DEF CleanupStorage
  <2>5. QED
    BY <1>5, <2>1, <2>2, <2>3, <2>4, Zenon DEF Cleaning
<1>6. CASE Removing(p)
  <2>1. CASE RemoveCheck(p)
    BY Zenon, <2>1, CleanupRuntimeKeepsLimit, QuietKeepsLimit DEF RemoveCheck
  <2>2. CASE MarkRemoving(p) \/ teardownStorage(p)
    BY Zenon, <1>0, <2>2, OtherFields, SaveKeepsLimit DEF MarkRemoving, teardownStorage
  <2>3. CASE Remove(p) \/ RemoveExecSessions(p) \/ RemoveFromDB(p) \/ FreeLock(p)
    BY Zenon, <2>3, QuietKeepsLimit DEF Remove, RemoveExecSessions, RemoveFromDB, FreeLock, dbVars
  <2>4. QED
    BY <1>6, <2>1, <2>2, <2>3, Zenon DEF Removing
<1>7. CASE Waiting(p) \/ Removed(p)
  BY Zenon, <1>7, QuietKeepsLimit DEF Waiting, WaitForExit, WaitForConmon, WaitResult, Sync,
     Removed, dbVars
<1>8. CASE Return(p)
  <2>1. mem' = [mem EXCEPT ![p] = Blank] /\ (db' = mem[p] \/ db' = db)
    BY Zenon, <1>8 DEF Return
  <2>2. Blank.RestartCount <= RestartRetries
    BY Zenon, <1>0 DEF Blank
  <2>3. QED
    BY Zenon, <1>0, <2>1, <2>2 DEF RetryInv, TypeOK
<1>9. QED
  BY <1>1, <1>2, <1>3, <1>4, <1>5, <1>6, <1>7, <1>8, Zenon DEF Podman

\* The on-failure policy restarts at most RestartRetries times in a row, however
\* stops, kills, cleanups and removals interleave, unless the health check asks for
\* restarts too (shouldRestart, handleRestartPolicy).
THEOREM RetryLimit == ASSUME ~HealthRestart PROVE Spec => []RetriesBounded
<1>1. CASE ~(RestartPolicy = "on-failure" /\ RestartRetries > 0)
  <2>1. RetriesBounded
    BY Zenon, <1>1 DEF RetriesBounded
  <2>2. QED
    BY <2>1, PTL
<1>2. CASE RestartPolicy = "on-failure" /\ RestartRetries > 0
  <2>1. Init => RetryInv
    BY ContainerAssumption DEF Init, RetryInv, Blank
  <2>2. TypeOK /\ RetryInv /\ [Next]_vars => RetryInv'
    <3> SUFFICES ASSUME TypeOK, RetryInv, [Next]_vars PROVE RetryInv'
      BY Zenon
    <3>1. ASSUME NEW p \in Procs, Die(p) PROVE RetryInv'
      <4>1. Blank.RestartCount <= RestartRetries
        BY ContainerAssumption DEF Blank
      <4>2. QED
        BY Zenon, <3>1, <4>1, CopyKeepsLimit DEF Die, dbVars
    <3>2. ASSUME NEW p \in Procs,
                 (\E c \in Commands : BeginUser(p, c)) \/ BeginCleanup(p) \/ BeginHealthStop(p)
          PROVE  RetryInv'
      BY Zenon, <3>2, QuietKeepsLimit DEF BeginUser, BeginCleanup, BeginHealthStop, dbVars
    <3>3. CASE ContainerExits \/ \E r \in Runs : Conmon(r) \/ ConmonDies(r)
      BY Zenon, <3>3, QuietKeepsLimit DEF ContainerExits, Conmon, ConmonReports, ConmonExits,
         ConmonDies, dbVars
    <3>4. CASE UNCHANGED vars
      BY Zenon, <3>4, QuietKeepsLimit DEF vars, dbVars
    <3>5. QED
      BY <1>2, <3>1, <3>2, <3>3, <3>4, PodmanKeepsLimit, Zenon DEF Next
  <2>3. RetryInv => RetriesBounded
    BY Zenon DEF RetryInv, RetriesBounded
  <2>4. QED
    BY <2>1, <2>2, <2>3, InitTypeOK, NextTypeOK, PTL DEF Spec
<1>3. QED
  BY Zenon, <1>1, <1>2

-----------------------------------------------------------------------------

(* What the steps of a podman process do *)

MayRun == {"Running", "Paused", "Stopping"}
Forced == "rm -f"

\* The commands, as far as the proofs tell them apart.
LEMMA CommandSets ==
    /\ GoOn = {"restart", Forced} /\ Removers = {"rm", Forced}
    /\ "restart" # Forced /\ "rm" # Forced /\ "stop" # Forced /\ "none" # Forced
    /\ Forced \notin Starters \cup Stoppers \cup Cleaners
    /\ {"rm", "stop", "restart", "none", "wait"} \cap Cleaners = {}
  BY Zenon DEF GoOn, Removers, Forced, Starters, Stoppers, Cleaners

\* The other processes' control state and copies are left alone.
Alone(p) ==
    \A q \in Procs : q # p => /\ pc'[q] = pc[q] /\ mem'[q] = mem[q]
                              /\ valid'[q] = valid[q] /\ err'[q] = err[q]
                              /\ cmd'[q] = cmd[q] /\ conmonPID'[q] = conmonPID[q]

\* A step inside a command: which command it is stays, and so do the histories of
\* what users have asked for.
Within(p) == Alone(p) /\ UNCHANGED <<cmd, begun, intent>>

\* The copy p has after the step, and the row it has saved.
Copy(p, state, pid, stopped) ==
    /\ mem'[p].State = state /\ mem'[p].PID = pid
    /\ mem'[p].StoppedByUser = stopped
SameCopy(p) == Copy(p, mem[p].State, mem[p].PID, mem[p].StoppedByUser)
Resources(p, mounted, netns) == mem'[p].Mounted = mounted /\ mem'[p].NetNS = netns
SameResources(p) == Resources(p, mem[p].Mounted, mem[p].NetNS)
Saved(p) == db' = IF valid[p] THEN mem'[p] ELSE db

\* Moves of the program counter, without and with a new error.
Move(p, from, to) == pc[p] = from /\ pc'[p] = to /\ err'[p] = err[p]
FailTo(p, from, to) == pc[p] = from /\ pc'[p] = to /\ err'[p]

\* What a step leaves alone besides: the rows, the world outside podman.
KeepsRows == UNCHANGED <<db, exists, codeRow>>
KeepsWorld == UNCHANGED <<oci, runs, conmon, exitFile, ran>>

\* Steps that change neither row nor copy nor the world.
Strolls(p) ==
    /\ mem'[p] = mem[p] /\ UNCHANGED valid /\ KeepsRows /\ KeepsWorld
    /\ \/ Move(p, "body", "done") /\ cmd[p] # "stop"
       \/ FailTo(p, "body", "done")
       \/ /\ Move(p, "body", "prepare") /\ valid[p]
          /\ mem[p].State \in {"Configured", "Created", "Stopped", "Exited"}
          /\ cmd[p] \in Starters
       \/ /\ Move(p, "body", "cl_net") /\ valid[p] /\ cmd[p] \in Cleaners \cup Removers
          /\ mem[p].State \notin {"Running", "Paused"}
          /\ cmd[p] \in Removers => mem[p].State # "Stopping"
       \/ /\ Move(p, "body", "wait_conmon") /\ valid[p] /\ cmd[p] = "wait"
          /\ mem[p].PID # 0 /\ conmonPID'[p] = mem[p].PID
       \/ FailTo(p, "start", "done") \/ FailTo(p, "start", "cl_net")
       \/ Move(p, "stop_ping", "stop_kill")
       \/ Move(p, "stop_ping", "stop_lock") /\ ~Alive(mem[p].PID)
       \/ FailTo(p, "stop_kill", "stop_lock")
       \/ Move(p, "rm_check", "cl_net") /\ exists
       \/ Move(p, "rm_check", "done") /\ ~exists
       \/ Move(p, "rm_exec", "rm_mark")
       \/ Move(p, "rm_exec", "exec_lock") /\ ExecBusy
       \/ /\ Move(p, "wait_conmon", "wait_lock") /\ conmon[conmonPID[p]] = "gone"
          /\ conmonPID'[p] = conmonPID[p]
       \/ Move(p, "wait_result", "done") \/ FailTo(p, "wait_result", "done")
       \/ Move(p, "cl_runtime", "cl_storage") /\ mem[p].State \notin {"Stopped", "Created"}
       \/ Move(p, "reinit", "create") /\ mem[p].State \notin {"Stopped", "Created"}

\* The lock is held again after StopContainer.
ChecksStop(p) ==
    /\ UNCHANGED valid /\ KeepsRows /\ KeepsWorld
    /\ pc[p] = "stop_check" /\ err'[p] = err[p]
    /\ IF valid[p] THEN mem'[p] = mem[p]
       ELSE Copy(p, "Stopped", mem[p].PID, mem[p].StoppedByUser)
    /\ \/ pc'[p] = "done"
       \/ pc'[p] = "conmon" /\ valid[p] /\ mem[p].State = "Stopping"
       \/ pc'[p] = "restart_net" /\ cmd[p] = "restart"
       \/ pc'[p] = "rm_check" /\ cmd[p] \in Removers

\* Saves that have to do with mounts, network or the retry count.
Resaves(p) ==
    /\ Saved(p) /\ SameCopy(p) /\ UNCHANGED <<valid, exists, codeRow>> /\ KeepsWorld
    /\ \/ /\ pc[p] = "prepare" /\ valid[p] /\ Resources(p, TRUE, TRUE) /\ err'[p] = err[p]
          /\ \/ pc'[p] = "reinit" /\ mem[p].State = "Stopped"
             \/ pc'[p] = "create" /\ mem[p].State \in {"Configured", "Exited"}
             \/ pc'[p] = "start"
       \/ FailTo(p, "prepare", "cl_net")
       \/ Move(p, "restart_net", "prepare") \/ FailTo(p, "restart_net", "done")
       \/ Move(p, "cl_net", "cl_runtime")
       \/ Move(p, "cl_storage", "done")
       \/ Move(p, "cl_storage", "rm_exec") /\ cmd[p] \in Removers /\ ~err[p]
       \/ Move(p, "rm_storage", "rm_db")
       \/ /\ Move(p, "body", "restart_net") /\ valid[p] /\ cmd[p] \in Cleaners
          /\ mem[p].State \notin {"Running", "Paused"}
          /\ shouldRestart(mem[p])

\* cleanupRuntime deletes the container in the runtime.
Deletes(p) ==
    /\ Saved(p) /\ SameResources(p) /\ UNCHANGED <<valid, exists, codeRow, runs, conmon, ran>>
    /\ oci' = NoOci /\ exitFile' = NoFile
    /\ \/ mem[p].State = "Stopped" /\ Copy(p, "Exited", mem[p].PID, mem[p].StoppedByUser)
       \/ mem[p].State = "Created" /\ Copy(p, "Configured", mem[p].PID, mem[p].StoppedByUser)
    /\ \/ Move(p, "reinit", "create") \/ Move(p, "cl_runtime", "cl_storage")
       \/ Move(p, "rm_check", "done") /\ ~exists

\* init, its failure, and the save that ends it.
Creates(p) ==
    /\ Move(p, "create", "save_created")
    /\ UNCHANGED <<valid, ran>> /\ KeepsRows
    /\ Copy(p, mem[p].State, runs', mem[p].StoppedByUser) /\ SameResources(p)
    /\ runs' = runs + 1 /\ runs < MaxRuns /\ oci' = [st |-> "created", run |-> runs']
    /\ LateExitFile \/ \A r \in Runs : conmon[r] # "monitoring"
    /\ conmon' = [conmon EXCEPT ![runs'] = "monitoring"] /\ exitFile' = NoFile
CreateFails(p) ==
    /\ FailTo(p, "create", "done") \/ FailTo(p, "create", "cl_net")
    /\ mem'[p] = mem[p] /\ UNCHANGED <<valid, ran, runs, conmon>> /\ KeepsRows
    /\ exitFile' = NoFile /\ oci' \in {NoOci, oci}
Created(p) ==
    /\ Move(p, "save_created", "start") \/ Move(p, "save_created", "done")
    /\ Saved(p) /\ Copy(p, "Created", mem[p].PID, FALSE) /\ SameResources(p)
    /\ UNCHANGED <<valid, exists, codeRow>> /\ KeepsWorld

\* start, and the saves that end start, pause, unpause and Kill.
Starts(p) ==
    /\ Move(p, "start", "save")
    /\ Copy(p, "Running", mem[p].PID, mem[p].StoppedByUser) /\ SameResources(p)
    /\ oci.st = "created" /\ oci' = [oci EXCEPT !.st = "running"] /\ ran' = ran \cup {oci.run}
    /\ UNCHANGED <<valid, runs, conmon, exitFile>> /\ KeepsRows
SavesState(p) ==
    /\ Move(p, "save", "done") \/ Move(p, "conmon", "exitwait")
    /\ Saved(p) /\ mem'[p] = mem[p] /\ UNCHANGED <<valid, exists, codeRow>> /\ KeepsWorld

\* Kill, Pause and Unpause, up to the save; and the kill of a paused container that
\* is removed by force.
Signals(p) ==
    /\ pc[p] = "body" /\ valid[p] /\ err'[p] = err[p] /\ Live
    /\ mem[p].State \in MayRun /\ mem'[p].State \in MayRun /\ mem'[p].PID = mem[p].PID
    /\ mem[p].State = "Stopping" => mem'[p].State = "Stopping"
    /\ mem[p].StoppedByUser => mem'[p].StoppedByUser
    /\ SameResources(p)
    /\ oci'.run = oci.run /\ oci'.st # "absent"
    /\ UNCHANGED <<valid, runs, conmon, exitFile, ran>> /\ KeepsRows
    /\ \/ pc'[p] \in {"save", "conmon"} /\ cmd[p] \in {"kill", "pause", "unpause"}
       \/ pc'[p] = "exitwait" /\ cmd[p] = Forced /\ mem'[p] = mem[p]

\* stop.
Stops(p) ==
    /\ pc[p] = "body" /\ valid[p] /\ cmd[p] \in Stoppers \cup GoOn
    /\ Saved(p) /\ SameResources(p) /\ UNCHANGED <<valid, exists, codeRow>> /\ KeepsWorld
    /\ \/ /\ pc'[p] = "stop_ping" /\ err'[p] = err[p]
          /\ mem[p].State \in {"Created", "Running", "Stopping"}
          /\ Copy(p, "Stopping", mem[p].PID, TRUE)
       \/ /\ pc'[p] = "done" /\ Copy(p, mem[p].State, mem[p].PID, TRUE)
          /\ mem[p].State \in {"Stopped", "Exited"} \/ err'[p]

\* StopContainer's signal.
StopKills(p) ==
    /\ Move(p, "stop_kill", "stop_lock")
    /\ mem'[p] = mem[p] /\ UNCHANGED <<valid, runs, conmon, exitFile, ran>> /\ KeepsRows
    /\ (Live /\ oci' = DeadOci) \/ (~Alive(mem[p].PID) /\ UNCHANGED oci)

\* The exit file is read, or missed, under the lock.
ReadsExit(p) ==
    /\ pc[p] \in {"conmon", "exitwait"} /\ err'[p] = err[p]
    /\ pc[p] = "exitwait" => exitFile # NoFile
    /\ Saved(p) /\ SameResources(p) /\ UNCHANGED <<valid, exists>> /\ KeepsWorld
    /\ IF SeesExit(mem[p])
       THEN Copy(p, "Stopped", 0, mem[p].StoppedByUser) /\ codeRow' = exitFile
       ELSE mem'[p] = mem[p] /\ UNCHANGED codeRow
    /\ \/ pc'[p] = "done"
       \/ pc'[p] = "restart_net" /\ cmd[p] = "restart"
       \/ pc'[p] = "rm_check" /\ cmd[p] \in Removers
DiesEarly(p) ==
    /\ FailTo(p, "conmon", "cl_net") /\ mem[p].State = "Stopping"
    /\ Saved(p) /\ Copy(p, "Stopped", 0, mem[p].StoppedByUser) /\ SameResources(p)
    /\ oci' = IF Alive(mem[p].PID) THEN DeadOci ELSE oci
    /\ codeRow'.run = mem[p].PID
    /\ UNCHANGED <<valid, exists, runs, conmon, exitFile, ran>>
TimesOut(p) ==
    /\ FailTo(p, "exitwait", "done") /\ exitFile = NoFile
    /\ LateExitFile \/ ~ConmonRunning(mem[p])
    /\ Saved(p) /\ Copy(p, "Stopped", mem[p].PID, mem[p].StoppedByUser) /\ SameResources(p)
    /\ UNCHANGED <<valid, exists, codeRow>> /\ KeepsWorld

\* The last steps of a removal.
Marks(p) ==
    /\ Move(p, "rm_mark", "rm_storage")
    /\ Saved(p) /\ Copy(p, "Removing", mem[p].PID, mem[p].StoppedByUser) /\ SameResources(p)
    /\ UNCHANGED <<valid, exists, codeRow>> /\ KeepsWorld
Removes(p) ==
    /\ mem'[p] = mem[p] /\ UNCHANGED <<db, codeRow>> /\ KeepsWorld
    /\ \/ Move(p, "rm_db", "rm_free") /\ exists' = FALSE /\ UNCHANGED valid
       \/ Move(p, "rm_free", "done") /\ ~valid'[p] /\ UNCHANGED exists

Steps(p) ==
    \/ Strolls(p) \/ ChecksStop(p) \/ Resaves(p) \/ Deletes(p) \/ Creates(p)
    \/ CreateFails(p) \/ Created(p) \/ Starts(p) \/ SavesState(p) \/ Signals(p)
    \/ Stops(p) \/ StopKills(p) \/ ReadsExit(p) \/ DiesEarly(p) \/ TimesOut(p)
    \/ Marks(p) \/ Removes(p)

\* An update of p's entries leaves the others alone.
LEMMA AloneIfOwn ==
    ASSUME TypeOK, NEW p \in Procs,
           pc' = pc \/ \E l : pc' = [pc EXCEPT ![p] = l],
           mem' = mem \/ \E s : mem' = [mem EXCEPT ![p] = s],
           valid' = valid \/ \E v : valid' = [valid EXCEPT ![p] = v],
           err' = err \/ \E e : err' = [err EXCEPT ![p] = e],
           cmd' = cmd \/ \E c : cmd' = [cmd EXCEPT ![p] = c],
           conmonPID' = conmonPID \/ \E n : conmonPID' = [conmonPID EXCEPT ![p] = n]
    PROVE  Alone(p)
<1>1. ASSUME NEW q \in Procs, q # p
      PROVE  /\ pc'[q] = pc[q] /\ mem'[q] = mem[q]
             /\ valid'[q] = valid[q] /\ err'[q] = err[q]
             /\ cmd'[q] = cmd[q] /\ conmonPID'[q] = conmonPID[q]
  BY Zenon, <1>1 DEF TypeOK
<1>2. QED
  BY Zenon, <1>1 DEF Alone

\* A save, entry by entry.
LEMMA SaveDoes ==
    ASSUME TypeOK, NEW p \in Procs, NEW s, Save(p, s)
    PROVE  mem'[p] = s /\ Saved(p)
<1>1. mem'[p] = s
  BY Zenon DEF Save, TypeOK
<1>2. QED
  BY Zenon, <1>1 DEF Save, Saved

\* A move, entry by entry.
LEMMA MoveDoes ==
    ASSUME TypeOK, NEW p \in Procs, NEW l
    PROVE  /\ Goto(p, l) => pc'[p] = l /\ err'[p] = err[p]
           /\ Fail(p, l) => pc'[p] = l /\ err'[p]
  BY Zenon DEF Goto, Fail, TypeOK

\* cleanupRuntime, entry by entry: it deletes the container or does nothing.
LEMMA CleanupRuntimeDoes ==
    ASSUME TypeOK, NEW p \in Procs, cleanupRuntime(p)
    PROVE  /\ UNCHANGED <<runs, conmon>>
           /\ \/ /\ Saved(p) /\ SameResources(p) /\ oci' = NoOci /\ exitFile' = NoFile
                 /\ \/ /\ mem[p].State = "Stopped"
                       /\ Copy(p, "Exited", mem[p].PID, mem[p].StoppedByUser)
                    \/ /\ mem[p].State = "Created"
                       /\ Copy(p, "Configured", mem[p].PID, mem[p].StoppedByUser)
              \/ /\ mem[p].State \notin {"Stopped", "Created"}
                 /\ mem'[p] = mem[p] /\ UNCHANGED <<db, oci, exitFile>>
<1>0. mem[p] \in StateType
  BY Zenon DEF TypeOK
<1>1. CASE StateIn(p, {"Stopped", "Created"})
  <2> DEFINE s == [mem[p] EXCEPT !.State =
                     IF mem[p].State = "Stopped" THEN "Exited" ELSE "Configured"]
  <2>1. /\ Save(p, s) /\ exitFile' = NoFile /\ oci' = NoOci
        /\ UNCHANGED <<runs, conmon>>
    BY Zenon, <1>1 DEF cleanupRuntime
  <2>2. /\ s.State = IF mem[p].State = "Stopped" THEN "Exited" ELSE "Configured"
        /\ s.PID = mem[p].PID /\ s.StoppedByUser = mem[p].StoppedByUser
        /\ s.Mounted = mem[p].Mounted /\ s.NetNS = mem[p].NetNS
    BY Zenon, <1>0 DEF StateType
  <2> HIDE DEF s
  <2>3. mem'[p] = s /\ Saved(p)
    BY Zenon, <2>1, SaveDoes
  <2>4. mem[p].State = "Stopped" \/ mem[p].State = "Created"
    BY Zenon, <1>1 DEF StateIn
  <2>5. QED
    BY Zenon, <2>1, <2>2, <2>3, <2>4 DEF Copy, SameResources, Resources
<1>2. CASE ~StateIn(p, {"Stopped", "Created"})
  BY Zenon, <1>2 DEF cleanupRuntime, StateIn, ociVars
<1>3. QED
  BY Zenon, <1>1, <1>2

\* The steps of the start path.
LEMMA StartingDoes ==
    ASSUME TypeOK, NEW p \in Procs, Starting(p)
    PROVE  Within(p) /\ Steps(p)
<1> USE DEF At, Doing, dbVars, ociVars, rmVars, procVars, userVars
<1>0. mem[p] \in StateType /\ mem \in [Procs -> StateType]
  BY Zenon DEF TypeOK
<1>a. Within(p)
  <2>1. UNCHANGED <<valid, cmd, conmonPID, begun, intent>>
    BY Zenon DEF Starting, BeginStart, prepare, prepareFails, reinit, init, initFails,
       SaveCreated, start, startFails, SaveState
  <2>2. /\ \E l : pc' = [pc EXCEPT ![p] = l]
        /\ err' = err \/ \E e : err' = [err EXCEPT ![p] = e]
    BY Zenon DEF Starting, BeginStart, prepare, prepareFails, reinit, init, initFails,
       SaveCreated, start, startFails, SaveState, Goto, Fail
  <2>3. mem' = mem \/ \E s : mem' = [mem EXCEPT ![p] = s]
    BY Zenon DEF Starting, BeginStart, prepare, prepareFails, reinit, init, initFails,
       SaveCreated, start, startFails, SaveState, Save, cleanupRuntime
  <2>4. QED
    BY Zenon, <2>1, <2>2, <2>3, AloneIfOwn DEF Within
<1>1. CASE BeginStart(p)
  <2>1. mem'[p] = mem[p] /\ UNCHANGED valid /\ KeepsRows /\ KeepsWorld
    BY Zenon, <1>1 DEF BeginStart, KeepsRows, KeepsWorld
  <2>2. CASE StateIn(p, Startable(cmd[p]))
    <3>1. Move(p, "body", "prepare") /\ valid[p] /\ cmd[p] \in Starters
      BY Zenon, <1>1, <2>2, MoveDoes DEF BeginStart, Move
    <3>2. mem[p].State \in {"Configured", "Created", "Stopped", "Exited"}
      BY Zenon, <2>2 DEF StateIn, Startable
    <3>3. QED
      BY Zenon, <1>a, <2>1, <3>1, <3>2 DEF Strolls, Steps
  <2>3. CASE ~StateIn(p, Startable(cmd[p]))
    BY Zenon, <1>1, <1>a, <2>1, <2>3, MoveDoes DEF BeginStart, FailTo, Strolls, Steps
  <2>4. QED
    BY Zenon, <2>2, <2>3
<1>2. CASE prepare(p)
  <2> DEFINE s == [mem[p] EXCEPT !.Mounted = TRUE, !.NetNS = TRUE]
  <2>a. /\ s.State = mem[p].State /\ s.PID = mem[p].PID
        /\ s.StoppedByUser = mem[p].StoppedByUser /\ s.Mounted = TRUE /\ s.NetNS = TRUE
    BY Zenon, <1>0 DEF StateType
  <2>b. Save(p, s)
    BY Zenon, <1>2 DEF prepare
  <2> HIDE DEF s
  <2>1. Saved(p) /\ SameCopy(p) /\ Resources(p, TRUE, TRUE)
    BY Zenon, <2>a, <2>b, SaveDoes DEF SameCopy, Copy, Resources
  <2>2. /\ pc[p] = "prepare" /\ valid[p] /\ err'[p] = err[p]
        /\ UNCHANGED <<valid, exists, codeRow>> /\ KeepsWorld
    BY Zenon, <1>2, MoveDoes DEF prepare, KeepsWorld
  <2>3. \/ pc'[p] = "reinit" /\ mem[p].State = "Stopped"
        \/ pc'[p] = "create" /\ mem[p].State \in {"Configured", "Exited"}
        \/ pc'[p] = "start"
    BY Zenon, <1>2, MoveDoes DEF prepare, StateIn
  <2>4. QED
    BY Zenon, <1>a, <2>1, <2>2, <2>3 DEF Resaves, Steps
<1>3. CASE prepareFails(p)
  <2> DEFINE s == [mem[p] EXCEPT !.Mounted = FALSE, !.NetNS = FALSE]
  <2>a. /\ s.State = mem[p].State /\ s.PID = mem[p].PID
        /\ s.StoppedByUser = mem[p].StoppedByUser
    BY Zenon, <1>0 DEF StateType
  <2>b. Save(p, s)
    BY Zenon, <1>3 DEF prepareFails
  <2> HIDE DEF s
  <2>1. Saved(p) /\ SameCopy(p)
    BY Zenon, <2>a, <2>b, SaveDoes DEF SameCopy, Copy
  <2>2. FailTo(p, "prepare", "cl_net") /\ UNCHANGED <<valid, exists, codeRow>> /\ KeepsWorld
    BY Zenon, <1>3, MoveDoes DEF prepareFails, FailTo, KeepsWorld
  <2>3. QED
    BY Zenon, <1>a, <2>1, <2>2 DEF Resaves, Steps
<1>4. CASE reinit(p)
  <2>1. Move(p, "reinit", "create")
    BY Zenon, <1>4, MoveDoes DEF reinit, Move
  <2>2. cleanupRuntime(p) /\ UNCHANGED <<valid, exists, codeRow, ran>>
    BY Zenon, <1>4 DEF reinit
  <2>3. Deletes(p) \/ Strolls(p)
    BY Zenon, <2>1, <2>2, CleanupRuntimeDoes DEF Deletes, Strolls, KeepsRows, KeepsWorld
  <2>4. QED
    BY Zenon, <1>a, <2>3 DEF Steps
<1>5. CASE init(p)
  <2>1. /\ Copy(p, mem[p].State, runs', mem[p].StoppedByUser) /\ SameResources(p)
        /\ runs' = runs + 1 /\ oci' = [st |-> "created", run |-> runs']
        /\ conmon' = [conmon EXCEPT ![runs'] = "monitoring"]
    BY Zenon, <1>0, <1>5 DEF init, Copy, SameResources, Resources, StateType
  <2>2. /\ Move(p, "create", "save_created") /\ UNCHANGED <<valid, ran>> /\ KeepsRows
        /\ LateExitFile \/ \A r \in Runs : conmon[r] # "monitoring"
        /\ exitFile' = NoFile /\ runs < MaxRuns
    BY Zenon, <1>5, MoveDoes DEF init, Move, KeepsRows
  <2>3. QED
    BY Zenon, <1>a, <2>1, <2>2 DEF Creates, Steps
<1>6. CASE initFails(p)
  <2>1. FailTo(p, "create", "done") \/ FailTo(p, "create", "cl_net")
    BY Zenon, <1>6, MoveDoes DEF initFails, FailTo
  <2>2. oci' \in {NoOci, oci}
    BY Zenon, <1>6 DEF initFails
  <2>3. QED
    BY Zenon, <1>6, <1>a, <2>1, <2>2 DEF initFails, CreateFails, KeepsRows, Steps
<1>7. CASE SaveCreated(p)
  <2> DEFINE s == [mem[p] EXCEPT !.State = "Created", !.ExitCode = 0,
                     !.StoppedByUser = FALSE, !.RestartPolicyMatch = FALSE,
                     !.RestartCount =
                        IF cmd[p] \in Cleaners THEN mem[p].RestartCount ELSE 0]
  <2>a. /\ s.State = "Created" /\ s.PID = mem[p].PID /\ s.StoppedByUser = FALSE
        /\ s.Mounted = mem[p].Mounted /\ s.NetNS = mem[p].NetNS
    BY Zenon, <1>0 DEF StateType
  <2>b. Save(p, s)
    BY Zenon, <1>7 DEF SaveCreated
  <2> HIDE DEF s
  <2>1. Saved(p) /\ Copy(p, "Created", mem[p].PID, FALSE) /\ SameResources(p)
    BY Zenon, <2>a, <2>b, SaveDoes DEF Copy, SameResources, Resources
  <2>2. /\ Move(p, "save_created", "start") \/ Move(p, "save_created", "done")
        /\ UNCHANGED <<valid, exists, codeRow>> /\ KeepsWorld
    BY Zenon, <1>7, MoveDoes DEF SaveCreated, Move, KeepsWorld
  <2>3. QED
    BY Zenon, <1>a, <2>1, <2>2 DEF Created, Steps
<1>8. CASE start(p)
  <2>1. Copy(p, "Running", mem[p].PID, mem[p].StoppedByUser) /\ SameResources(p)
    BY Zenon, <1>0, <1>8 DEF start, Copy, SameResources, Resources, StateType
  <2>2. QED
    BY Zenon, <1>8, <1>a, <2>1, MoveDoes DEF start, Move, KeepsRows, Starts, Steps
<1>9. CASE startFails(p)
  <2>1. FailTo(p, "start", "done") \/ FailTo(p, "start", "cl_net")
    BY Zenon, <1>9, MoveDoes DEF startFails, FailTo
  <2>2. QED
    BY Zenon, <1>9, <1>a, <2>1 DEF startFails, KeepsRows, KeepsWorld, Strolls, Steps
<1>10. CASE SaveState(p)
  <2>1. Saved(p) /\ mem'[p] = mem[p] /\ Move(p, "save", "done")
    BY Zenon, <1>10, SaveDoes, MoveDoes DEF SaveState, Move
  <2>2. QED
    BY Zenon, <1>10, <1>a, <2>1 DEF SaveState, KeepsWorld, SavesState, Steps
<1>11. QED
  BY Zenon, <1>1, <1>2, <1>3, <1>4, <1>5, <1>6, <1>7, <1>8, <1>9, <1>10 DEF Starting

\* Kill, Pause and Unpause.
LEMMA SignallingDoes ==
    ASSUME TypeOK, NEW p \in Procs, Signalling(p)
    PROVE  Within(p) /\ Steps(p)
<1> USE DEF At, Doing, dbVars, ociVars, rmVars, procVars, userVars
<1>0. mem[p] \in StateType /\ mem \in [Procs -> StateType] /\ oci \in OciType
  BY Zenon DEF TypeOK
<1>a. Within(p)
  <2>1. UNCHANGED <<valid, cmd, conmonPID, begun, intent>>
    BY Zenon DEF Signalling, Kill, Pause, Unpause, Freeze
  <2>2. /\ \E l : pc' = [pc EXCEPT ![p] = l]
        /\ err' = err \/ \E e : err' = [err EXCEPT ![p] = e]
    BY Zenon DEF Signalling, Kill, Pause, Unpause, Freeze, Goto, Fail
  <2>3. mem' = mem \/ \E s : mem' = [mem EXCEPT ![p] = s]
    BY Zenon DEF Signalling, Kill, Pause, Unpause, Freeze
  <2>4. QED
    BY Zenon, <2>1, <2>2, <2>3, AloneIfOwn DEF Within
<1>b. ASSUME Fail(p, "done"), UNCHANGED <<mem, oci>>, pc[p] = "body",
             UNCHANGED <<valid, runs, conmon, exitFile, ran>>, KeepsRows
      PROVE  Strolls(p)
  BY Zenon, <1>b, MoveDoes DEF Strolls, FailTo, KeepsWorld
<1>c. ASSUME NEW v PROVE /\ [oci EXCEPT !.st = v].run = oci.run
                         /\ [oci EXCEPT !.st = v].st = v
  BY Zenon, <1>0 DEF OciType
<1>1. CASE Kill(p)
  <2>0. pc[p] = "body" /\ valid[p] /\ cmd[p] = "kill" /\ KeepsRows
        /\ UNCHANGED <<valid, runs, conmon, exitFile, ran>>
    BY Zenon, <1>1 DEF Kill, KeepsRows
  <2>1. CASE StateIn(p, {"Running", "Stopping", "Paused"}) /\ Live
    <3>1. /\ mem'[p].State = mem[p].State /\ mem'[p].PID = mem[p].PID /\ SameResources(p)
          /\ mem'[p].StoppedByUser
      <4>1. mem' = [mem EXCEPT ![p].StoppedByUser = TRUE]
        BY Zenon, <1>1, <2>1 DEF Kill
      <4>2. QED
        BY Zenon, <1>0, <4>1 DEF StateType, SameResources, Resources
    <3>2. pc'[p] \in {"save", "conmon"} /\ err'[p] = err[p] /\ oci' \in {oci, DeadOci}
      BY Zenon, <1>1, <2>1, MoveDoes DEF Kill
    <3>3. oci'.run = oci.run /\ oci'.st # "absent"
      BY Zenon, <1>c, <2>1, <3>2 DEF DeadOci, Live
    <3>4. Signals(p)
      BY Zenon, <2>0, <2>1, <3>1, <3>2, <3>3 DEF Signals, StateIn, MayRun
    <3>5. QED
      BY Zenon, <1>a, <3>4 DEF Steps
  <2>2. CASE ~(StateIn(p, {"Running", "Stopping", "Paused"}) /\ Live)
    BY Zenon, <1>1, <1>a, <1>b, <2>0, <2>2 DEF Kill, Steps
  <2>3. QED
    BY Zenon, <2>1, <2>2
<1>2. ASSUME NEW c \in {"pause", "unpause"}, NEW from \in {"Running", "Paused"},
             NEW to \in {"Running", "Paused"}, NEW ociFrom \in {"running", "paused"},
             NEW ociTo \in {"running", "paused"}, Freeze(p, c, from, to, ociFrom, ociTo)
      PROVE  Steps(p)
  <2>0. pc[p] = "body" /\ valid[p] /\ cmd[p] = c /\ KeepsRows
        /\ UNCHANGED <<valid, runs, conmon, exitFile, ran>>
    BY Zenon, <1>2 DEF Freeze, KeepsRows
  <2>1. CASE StateIn(p, {from}) /\ oci.st = ociFrom
    <3>1. /\ mem'[p].State = to /\ mem'[p].PID = mem[p].PID /\ SameResources(p)
          /\ mem'[p].StoppedByUser = mem[p].StoppedByUser
      <4>1. mem' = [mem EXCEPT ![p].State = to]
        BY Zenon, <1>2, <2>1 DEF Freeze
      <4>2. QED
        BY Zenon, <1>0, <4>1 DEF StateType, SameResources, Resources
    <3>2. pc'[p] = "save" /\ err'[p] = err[p] /\ oci' = [oci EXCEPT !.st = ociTo]
      BY Zenon, <1>2, <2>1, MoveDoes DEF Freeze
    <3>3. oci'.run = oci.run /\ oci'.st # "absent" /\ Live
      BY Zenon, <1>c, <2>1, <3>2 DEF Live
    <3>4. Signals(p)
      BY Zenon, <2>0, <2>1, <3>1, <3>2, <3>3 DEF Signals, StateIn, MayRun
    <3>5. QED
      BY Zenon, <3>4 DEF Steps
  <2>2. CASE ~(StateIn(p, {from}) /\ oci.st = ociFrom)
    BY Zenon, <1>2, <1>a, <1>b, <2>0, <2>2 DEF Freeze, Steps
  <2>3. QED
    BY Zenon, <2>1, <2>2
<1>3. QED
  BY Zenon, <1>1, <1>2, <1>a DEF Signalling, Pause, Unpause

\* The steps of stop and StopContainer, and the wait for conmon.
LEMMA StoppingDoes ==
    ASSUME TypeOK, NEW p \in Procs, Stopping(p)
    PROVE  Within(p) /\ Steps(p)
<1> USE DEF At, Doing, dbVars, ociVars, rmVars, procVars, userVars
<1>0. mem[p] \in StateType /\ mem \in [Procs -> StateType]
  BY Zenon DEF TypeOK
<1>a. Within(p)
  <2>1. UNCHANGED <<valid, cmd, conmonPID, begun, intent>>
    BY Zenon DEF Stopping, stop, StopPing, StopKill, StopKillFails, StopCheck,
       ConmonAlive, ConmonGone, ConmonDiedEarly, ExitFileAppears, ExitFileTimeout,
       RestartNet
  <2>2. /\ \E l : pc' = [pc EXCEPT ![p] = l]
        /\ err' = err \/ \E e : err' = [err EXCEPT ![p] = e]
    BY Zenon DEF Stopping, stop, StopPing, StopKill, StopKillFails, StopCheck,
       ConmonAlive, ConmonGone, ConmonDiedEarly, ExitFileAppears, ExitFileTimeout,
       RestartNet, Goto, Fail
  <2>3. mem' = mem \/ \E s : mem' = [mem EXCEPT ![p] = s]
    <3>1. CASE StopCheck(p)
      <4>1. [mem EXCEPT ![p].State = "Stopped"] =
              [mem EXCEPT ![p] = [mem[p] EXCEPT !.State = "Stopped"]]
        BY Zenon, <1>0
      <4>2. mem' = mem \/ mem' = [mem EXCEPT ![p].State = "Stopped"]
        BY Zenon, <3>1 DEF StopCheck
      <4>3. QED
        BY Zenon, <4>1, <4>2
    <3>2. CASE ~StopCheck(p)
      BY Zenon, <3>2 DEF Stopping, stop, StopPing, StopKill, StopKillFails,
         ConmonAlive, ConmonGone, ConmonDiedEarly, ExitFileAppears, ExitFileTimeout,
         RestartNet, Save
    <3>3. QED
      BY Zenon, <3>1, <3>2
  <2>4. QED
    BY Zenon, <2>1, <2>2, <2>3, AloneIfOwn DEF Within
<1>1. CASE stop(p)
  <2>0. /\ pc[p] = "body" /\ valid[p] /\ cmd[p] \in Stoppers \cup GoOn
        /\ UNCHANGED <<valid, exists, codeRow>> /\ KeepsWorld
    BY Zenon, <1>1 DEF stop, StopsFirst, KeepsWorld, GoOn, Stoppers
  <2>1. CASE StateIn(p, {"Created", "Running", "Stopping"})
    <3> DEFINE s == [mem[p] EXCEPT !.StoppedByUser = TRUE, !.State = "Stopping"]
    <3>a. /\ s.State = "Stopping" /\ s.PID = mem[p].PID /\ s.StoppedByUser = TRUE
          /\ s.Mounted = mem[p].Mounted /\ s.NetNS = mem[p].NetNS
      BY Zenon, <1>0 DEF StateType
    <3>b. Save(p, s) /\ Goto(p, "stop_ping")
      BY Zenon, <1>1, <2>1 DEF stop
    <3> HIDE DEF s
    <3>1. Saved(p) /\ Copy(p, "Stopping", mem[p].PID, TRUE) /\ SameResources(p)
      BY Zenon, <3>a, <3>b, SaveDoes DEF Copy, SameResources, Resources
    <3>2. QED
      BY Zenon, <1>a, <2>0, <2>1, <3>1, <3>b, MoveDoes DEF StateIn, Stops, Steps
  <2>2. CASE ~StateIn(p, {"Created", "Running", "Stopping"})
    <3> DEFINE s == [mem[p] EXCEPT !.StoppedByUser = TRUE]
    <3>a. /\ s.State = mem[p].State /\ s.PID = mem[p].PID /\ s.StoppedByUser = TRUE
          /\ s.Mounted = mem[p].Mounted /\ s.NetNS = mem[p].NetNS
      BY Zenon, <1>0 DEF StateType
    <3>b. /\ Save(p, s)
          /\ \/ StateIn(p, {"Stopped", "Exited"}) /\ Goto(p, "done")
             \/ Fail(p, "done")
      BY Zenon, <1>1, <2>2 DEF stop
    <3> HIDE DEF s
    <3>1. Saved(p) /\ Copy(p, mem[p].State, mem[p].PID, TRUE) /\ SameResources(p)
      BY Zenon, <3>a, <3>b, SaveDoes DEF Copy, SameResources, Resources
    <3>2. QED
      BY Zenon, <1>a, <2>0, <3>1, <3>b, MoveDoes DEF StateIn, Stops, Steps
  <2>3. QED
    BY Zenon, <2>1, <2>2
<1>2. CASE StopPing(p)
  BY Zenon, <1>2, <1>a, MoveDoes DEF StopPing, Move, Strolls, KeepsRows, KeepsWorld, Steps
<1>3. CASE StopKill(p)
  BY Zenon, <1>3, <1>a, MoveDoes DEF StopKill, Move, StopKills, KeepsRows, Steps
<1>4. CASE StopKillFails(p)
  BY Zenon, <1>4, <1>a, MoveDoes DEF StopKillFails, FailTo, Strolls, KeepsRows,
     KeepsWorld, Steps
<1>5. CASE StopCheck(p)
  <2>1. IF valid[p] THEN mem'[p] = mem[p]
        ELSE Copy(p, "Stopped", mem[p].PID, mem[p].StoppedByUser)
    BY Zenon, <1>0, <1>5 DEF StopCheck, Copy, StateType
  <2>2. /\ pc[p] = "stop_check" /\ err'[p] = err[p]
        /\ UNCHANGED valid /\ KeepsRows /\ KeepsWorld
    BY Zenon, <1>5, MoveDoes DEF StopCheck, KeepsRows, KeepsWorld
  <2>3. \/ Goto(p, "done")
        \/ Goto(p, "conmon") /\ valid[p] /\ StateIn(p, {"Stopping"})
        \/ Goto(p, AfterStop(p))
    BY Zenon, <1>5 DEF StopCheck
  <2>4. \/ pc'[p] = "done"
        \/ pc'[p] = "conmon" /\ valid[p] /\ mem[p].State = "Stopping"
        \/ pc'[p] = "restart_net" /\ cmd[p] = "restart"
        \/ pc'[p] = "rm_check" /\ cmd[p] \in Removers
    BY Zenon, <2>3, MoveDoes DEF AfterStop, StateIn
  <2>5. QED
    BY Zenon, <1>a, <2>1, <2>2, <2>4 DEF ChecksStop, Steps
<1>6. CASE ConmonAlive(p)
  BY Zenon, <1>6, <1>a, MoveDoes, SaveDoes DEF ConmonAlive, Move, KeepsWorld,
     SavesState, Steps
<1>b. ASSUME Save(p, checkExitFile(mem[p])), RecordExit(mem[p])
      PROVE  /\ Saved(p) /\ SameResources(p)
             /\ IF SeesExit(mem[p])
                THEN Copy(p, "Stopped", 0, mem[p].StoppedByUser) /\ codeRow' = exitFile
                ELSE mem'[p] = mem[p] /\ UNCHANGED codeRow
  <2>1. mem'[p] = checkExitFile(mem[p]) /\ Saved(p)
    BY Zenon, <1>b, SaveDoes
  <2>2. QED
    BY Zenon, <1>0, <1>b, <2>1 DEF checkExitFile, RecordExit, Copy, SameResources, Resources,
       StateType
<1>c. ASSUME Goto(p, AfterStop(p))
      PROVE  \/ pc'[p] = "done"
             \/ pc'[p] = "restart_net" /\ cmd[p] = "restart"
             \/ pc'[p] = "rm_check" /\ cmd[p] \in Removers
  BY Zenon, <1>c, MoveDoes DEF AfterStop
<1>7. CASE ConmonGone(p)
  BY Zenon, <1>7, <1>a, <1>b, <1>c, MoveDoes DEF ConmonGone, KeepsWorld, ReadsExit, Steps
<1>8. CASE ConmonDiedEarly(p)
  <2> DEFINE s == [mem[p] EXCEPT !.State = "Stopped", !.PID = 0, !.ExitCode = -1]
  <2>a. /\ s.State = "Stopped" /\ s.PID = 0 /\ s.StoppedByUser = mem[p].StoppedByUser
        /\ s.Mounted = mem[p].Mounted /\ s.NetNS = mem[p].NetNS
    BY Zenon, <1>0 DEF StateType
  <2>b. Save(p, s) /\ Fail(p, "cl_net")
    BY Zenon, <1>8 DEF ConmonDiedEarly
  <2> HIDE DEF s
  <2>1. Saved(p) /\ Copy(p, "Stopped", 0, mem[p].StoppedByUser) /\ SameResources(p)
    BY Zenon, <2>a, <2>b, SaveDoes DEF Copy, SameResources, Resources
  <2>2. /\ pc[p] = "conmon" /\ mem[p].State = "Stopping" /\ codeRow'.run = mem[p].PID
        /\ oci' = IF Alive(mem[p].PID) THEN DeadOci ELSE oci
        /\ UNCHANGED <<valid, exists, runs, conmon, exitFile, ran>>
    BY Zenon, <1>8 DEF ConmonDiedEarly, StateIn
  <2>3. QED
    BY Zenon, <1>a, <2>1, <2>2, <2>b, MoveDoes DEF FailTo, DiesEarly, Steps
<1>9. CASE ExitFileAppears(p)
  BY Zenon, <1>9, <1>a, <1>b, <1>c, MoveDoes DEF ExitFileAppears, KeepsWorld, ReadsExit, Steps
<1>10. CASE ExitFileTimeout(p)
  <2> DEFINE s == [mem[p] EXCEPT !.State = "Stopped", !.ExitCode = -1]
  <2>a. /\ s.State = "Stopped" /\ s.PID = mem[p].PID
        /\ s.StoppedByUser = mem[p].StoppedByUser
        /\ s.Mounted = mem[p].Mounted /\ s.NetNS = mem[p].NetNS
    BY Zenon, <1>0 DEF StateType
  <2>b. Save(p, s) /\ Fail(p, "done")
    BY Zenon, <1>10 DEF ExitFileTimeout
  <2> HIDE DEF s
  <2>1. Saved(p) /\ Copy(p, "Stopped", mem[p].PID, mem[p].StoppedByUser) /\ SameResources(p)
    BY Zenon, <2>a, <2>b, SaveDoes DEF Copy, SameResources, Resources
  <2>2. QED
    BY Zenon, <1>a, <1>10, <2>1, <2>b, MoveDoes DEF ExitFileTimeout, FailTo, KeepsWorld,
       TimesOut, Steps
<1>11. CASE RestartNet(p)
  <2> DEFINE s == [mem[p] EXCEPT !.NetNS = FALSE]
  <2>a. /\ s.State = mem[p].State /\ s.PID = mem[p].PID
        /\ s.StoppedByUser = mem[p].StoppedByUser
    BY Zenon, <1>0 DEF StateType
  <2>b. Save(p, s) /\ (Fail(p, "done") \/ Goto(p, "prepare"))
    BY Zenon, <1>11 DEF RestartNet
  <2> HIDE DEF s
  <2>1. Saved(p) /\ SameCopy(p)
    BY Zenon, <2>a, <2>b, SaveDoes DEF SameCopy, Copy
  <2>2. QED
    BY Zenon, <1>a, <1>11, <2>1, <2>b, MoveDoes DEF RestartNet, Move, FailTo, KeepsWorld,
       Resaves, Steps
<1>12. QED
  BY Zenon, <1>1, <1>2, <1>3, <1>4, <1>5, <1>6, <1>7, <1>8, <1>9, <1>10, <1>11
     DEF Stopping

\* Cleanup and the restart policy.
LEMMA CleaningDoes ==
    ASSUME TypeOK, NEW p \in Procs, Cleaning(p)
    PROVE  Within(p) /\ Steps(p)
<1> USE DEF At, Doing, dbVars, ociVars, rmVars, procVars, userVars
<1>0. mem[p] \in StateType /\ mem \in [Procs -> StateType]
  BY Zenon DEF TypeOK
<1>a. Within(p)
  <2>1. UNCHANGED <<valid, cmd, conmonPID, begun, intent>>
    BY Zenon DEF Cleaning, Cleanup, CleanupNetwork, CleanupRuntime, CleanupStorage
  <2>2. /\ \E l : pc' = [pc EXCEPT ![p] = l]
        /\ err' = err \/ \E e : err' = [err EXCEPT ![p] = e]
    BY Zenon DEF Cleaning, Cleanup, CleanupNetwork, CleanupRuntime, CleanupStorage,
       handleRestartPolicy, Goto, Fail
  <2>3. mem' = mem \/ \E s : mem' = [mem EXCEPT ![p] = s]
    BY Zenon DEF Cleaning, Cleanup, CleanupNetwork, CleanupRuntime, CleanupStorage,
       handleRestartPolicy, cleanupRuntime, Save
  <2>4. QED
    BY Zenon, <2>1, <2>2, <2>3, AloneIfOwn DEF Within
<1>1. CASE Cleanup(p)
  <2>0. /\ pc[p] = "body" /\ valid[p] /\ cmd[p] \in Cleaners
        /\ UNCHANGED <<valid, exists, codeRow>> /\ KeepsWorld
    BY Zenon, <1>1 DEF Cleanup, KeepsWorld
  <2>a. cmd[p] # "stop" /\ cmd[p] \notin Removers
    BY Zenon, <2>0 DEF Cleaners, Removers
  <2>1. \/ (Fail(p, "done") \/ Goto(p, "done")) /\ UNCHANGED <<mem, db>>
        \/ /\ StateIn(p, {"Configured", "Created", "Stopped", "Stopping", "Exited"})
           /\ handleRestartPolicy(p)
    BY Zenon, <1>1 DEF Cleanup
  <2>2. CASE (Fail(p, "done") \/ Goto(p, "done")) /\ UNCHANGED <<mem, db>>
    BY Zenon, <1>a, <2>0, <2>a, <2>2, MoveDoes DEF Move, FailTo, KeepsRows, Strolls, Steps
  <2>3. CASE /\ StateIn(p, {"Configured", "Created", "Stopped", "Stopping", "Exited"})
             /\ handleRestartPolicy(p)
    <3>0. mem[p].State \notin {"Running", "Paused"}
      BY Zenon, <2>3 DEF StateIn
    <3>1. CASE shouldRestart(mem[p])
      <4> DEFINE s == [mem[p] EXCEPT !.RestartCount = mem[p].RestartCount + 1]
      <4>a. /\ s.State = mem[p].State /\ s.PID = mem[p].PID
            /\ s.StoppedByUser = mem[p].StoppedByUser
        BY Zenon, <1>0 DEF StateType
      <4>b. Save(p, s) /\ Goto(p, "restart_net")
        BY Zenon, <2>3, <3>1 DEF handleRestartPolicy
      <4> HIDE DEF s
      <4>1. Saved(p) /\ SameCopy(p)
        BY Zenon, <4>a, <4>b, SaveDoes DEF SameCopy, Copy
      <4>2. QED
        BY Zenon, <1>a, <2>0, <3>0, <3>1, <4>1, <4>b, MoveDoes DEF Move, Resaves, Steps
    <3>2. CASE ~shouldRestart(mem[p])
      BY Zenon, <1>a, <2>0, <2>a, <2>3, <3>0, <3>2, MoveDoes DEF handleRestartPolicy,
         Move, KeepsRows, Strolls, Steps
    <3>3. QED
      BY Zenon, <3>1, <3>2
  <2>4. QED
    BY Zenon, <2>1, <2>2, <2>3
<1>2. CASE CleanupNetwork(p)
  <2> DEFINE s == [mem[p] EXCEPT !.NetNS = FALSE]
  <2>a. /\ s.State = mem[p].State /\ s.PID = mem[p].PID
        /\ s.StoppedByUser = mem[p].StoppedByUser
    BY Zenon, <1>0 DEF StateType
  <2>b. Save(p, s) /\ Goto(p, "cl_runtime")
    BY Zenon, <1>2 DEF CleanupNetwork
  <2> HIDE DEF s
  <2>1. Saved(p) /\ SameCopy(p)
    BY Zenon, <2>a, <2>b, SaveDoes DEF SameCopy, Copy
  <2>2. QED
    BY Zenon, <1>a, <1>2, <2>1, <2>b, MoveDoes DEF CleanupNetwork, Move, KeepsWorld,
       Resaves, Steps
<1>3. CASE CleanupRuntime(p)
  <2>1. Move(p, "cl_runtime", "cl_storage")
    BY Zenon, <1>3, MoveDoes DEF CleanupRuntime, Move
  <2>2. cleanupRuntime(p) /\ UNCHANGED <<valid, exists, codeRow, ran>>
    BY Zenon, <1>3 DEF CleanupRuntime
  <2>3. Deletes(p) \/ Strolls(p)
    BY Zenon, <2>1, <2>2, CleanupRuntimeDoes DEF Deletes, Strolls, KeepsRows, KeepsWorld
  <2>4. QED
    BY Zenon, <1>a, <2>3 DEF Steps
<1>4. CASE CleanupStorage(p)
  <2> DEFINE s == [mem[p] EXCEPT !.Mounted = FALSE]
  <2>a. /\ s.State = mem[p].State /\ s.PID = mem[p].PID
        /\ s.StoppedByUser = mem[p].StoppedByUser
    BY Zenon, <1>0 DEF StateType
  <2>b. /\ Save(p, s)
        /\ \/ Goto(p, "rm_exec") /\ cmd[p] \in Removers /\ ~err[p]
           \/ Goto(p, "done")
    BY Zenon, <1>4 DEF CleanupStorage
  <2> HIDE DEF s
  <2>1. Saved(p) /\ SameCopy(p)
    BY Zenon, <2>a, <2>b, SaveDoes DEF SameCopy, Copy
  <2>2. QED
    BY Zenon, <1>a, <1>4, <2>1, <2>b, MoveDoes DEF CleanupStorage, Move, KeepsWorld,
       Resaves, Steps
<1>5. QED
  BY Zenon, <1>1, <1>2, <1>3, <1>4 DEF Cleaning

\* Removal.
LEMMA RemovingDoes ==
    ASSUME TypeOK, NEW p \in Procs, Removing(p)
    PROVE  Within(p) /\ Steps(p)
<1> USE DEF At, Doing, dbVars, ociVars, rmVars, procVars, userVars
<1>0. mem[p] \in StateType /\ mem \in [Procs -> StateType] /\ oci \in OciType
  BY Zenon DEF TypeOK
<1>a. Within(p)
  <2>1. UNCHANGED <<cmd, conmonPID, begun, intent>>
    BY Zenon DEF Removing, Remove, RemoveCheck, RemoveExecSessions, MarkRemoving,
       teardownStorage, RemoveFromDB, FreeLock
  <2>2. /\ \E l : pc' = [pc EXCEPT ![p] = l]
        /\ err' = err \/ \E e : err' = [err EXCEPT ![p] = e]
        /\ valid' = valid \/ \E v : valid' = [valid EXCEPT ![p] = v]
    BY Zenon DEF Removing, Remove, RemoveCheck, RemoveExecSessions, MarkRemoving,
       teardownStorage, RemoveFromDB, FreeLock, Goto, Fail
  <2>3. mem' = mem \/ \E s : mem' = [mem EXCEPT ![p] = s]
    BY Zenon DEF Removing, Remove, RemoveCheck, RemoveExecSessions, MarkRemoving,
       teardownStorage, RemoveFromDB, FreeLock, cleanupRuntime, Save
  <2>4. QED
    BY Zenon, <2>1, <2>2, <2>3, AloneIfOwn DEF Within
<1>1. CASE Remove(p)
  <2>0. /\ pc[p] = "body" /\ valid[p] /\ cmd[p] \in Removers /\ mem'[p] = mem[p]
        /\ UNCHANGED <<valid, runs, conmon, exitFile, ran>> /\ KeepsRows
    BY Zenon, <1>1 DEF Remove, KeepsRows
  <2>1. \/ Fail(p, "done") /\ UNCHANGED oci
        \/ /\ cmd[p] = "rm -f" /\ StateIn(p, {"Paused"}) /\ Live
           /\ oci' = DeadOci /\ Goto(p, "exitwait")
        \/ /\ ~(cmd[p] = "rm" /\ StateIn(p, {"Running", "Paused", "Stopping"}))
           /\ ~(cmd[p] = "rm -f" /\ StateIn(p, {"Paused"}))
           /\ Goto(p, "cl_net") /\ UNCHANGED oci
    BY Zenon, <1>1 DEF Remove
  <2>2. ~(cmd[p] = "rm -f" /\ StateIn(p, {"Running", "Stopping"}))
    BY Zenon, <1>1 DEF Remove, StopsFirst
  <2>3. CASE Fail(p, "done") /\ UNCHANGED oci
    BY Zenon, <1>a, <2>0, <2>3, MoveDoes DEF FailTo, KeepsWorld, Strolls, Steps
  <2>4. CASE /\ cmd[p] = "rm -f" /\ StateIn(p, {"Paused"}) /\ Live
             /\ oci' = DeadOci /\ Goto(p, "exitwait")
    <3>1. oci'.run = oci.run /\ oci'.st # "absent"
      BY Zenon, <1>0, <2>4 DEF DeadOci, OciType
    <3>2. pc'[p] = "exitwait" /\ err'[p] = err[p]
      BY Zenon, <2>4, MoveDoes
    <3>3. Signals(p)
      BY Zenon, <2>0, <2>4, <3>1, <3>2 DEF Signals, StateIn, MayRun, SameResources,
         Resources, Forced
    <3>4. QED
      BY Zenon, <1>a, <3>3 DEF Steps
  <2>5. CASE /\ ~(cmd[p] = "rm" /\ StateIn(p, {"Running", "Paused", "Stopping"}))
             /\ ~(cmd[p] = "rm -f" /\ StateIn(p, {"Paused"}))
             /\ Goto(p, "cl_net") /\ UNCHANGED oci
    <3>1. mem[p].State \notin {"Running", "Paused", "Stopping"}
      BY Zenon, <2>0, <2>2, <2>5 DEF StateIn, Removers
    <3>2. QED
      BY Zenon, <1>a, <2>0, <2>5, <3>1, MoveDoes DEF Move, KeepsWorld, Strolls, Steps
  <2>6. QED
    BY Zenon, <2>1, <2>3, <2>4, <2>5
<1>2. CASE RemoveCheck(p)
  <2>0. pc[p] = "rm_check" /\ UNCHANGED <<valid, exists, codeRow, ran>>
    BY Zenon, <1>2 DEF RemoveCheck
  <2>1. CASE exists
    BY Zenon, <1>2, <1>a, <2>0, <2>1, MoveDoes DEF RemoveCheck, Move, KeepsRows,
       KeepsWorld, Strolls, Steps
  <2>2. CASE ~exists
    <3>1. Move(p, "rm_check", "done")
      BY Zenon, <1>2, <2>0, <2>2, MoveDoes DEF RemoveCheck, Move
    <3>2. cleanupRuntime(p)
      BY Zenon, <1>2, <2>2 DEF RemoveCheck
    <3>3. Deletes(p) \/ Strolls(p)
      BY Zenon, <2>0, <2>2, <3>1, <3>2, CleanupRuntimeDoes DEF Deletes, Strolls, KeepsRows,
         KeepsWorld
    <3>4. QED
      BY Zenon, <1>a, <3>3 DEF Steps
  <2>3. QED
    BY Zenon, <2>1, <2>2
<1>3. CASE RemoveExecSessions(p)
  BY Zenon, <1>3, <1>a, MoveDoes DEF RemoveExecSessions, Move, KeepsRows, KeepsWorld,
     Strolls, Steps
<1>4. CASE MarkRemoving(p)
  <2> DEFINE s == [mem[p] EXCEPT !.State = "Removing"]
  <2>a. /\ s.State = "Removing" /\ s.PID = mem[p].PID
        /\ s.StoppedByUser = mem[p].StoppedByUser
        /\ s.Mounted = mem[p].Mounted /\ s.NetNS = mem[p].NetNS
    BY Zenon, <1>0 DEF StateType
  <2>b. Save(p, s) /\ Goto(p, "rm_storage")
    BY Zenon, <1>4 DEF MarkRemoving
  <2> HIDE DEF s
  <2>1. Saved(p) /\ Copy(p, "Removing", mem[p].PID, mem[p].StoppedByUser) /\ SameResources(p)
    BY Zenon, <2>a, <2>b, SaveDoes DEF Copy, SameResources, Resources
  <2>2. QED
    BY Zenon, <1>a, <1>4, <2>1, <2>b, MoveDoes DEF MarkRemoving, Move, KeepsWorld,
       Marks, Steps
<1>5. CASE teardownStorage(p)
  <2> DEFINE s == [mem[p] EXCEPT !.Mounted = FALSE]
  <2>a. /\ s.State = mem[p].State /\ s.PID = mem[p].PID
        /\ s.StoppedByUser = mem[p].StoppedByUser
    BY Zenon, <1>0 DEF StateType
  <2>b. Save(p, s) /\ Goto(p, "rm_db")
    BY Zenon, <1>5 DEF teardownStorage
  <2> HIDE DEF s
  <2>1. Saved(p) /\ SameCopy(p)
    BY Zenon, <2>a, <2>b, SaveDoes DEF SameCopy, Copy
  <2>2. QED
    BY Zenon, <1>a, <1>5, <2>1, <2>b, MoveDoes DEF teardownStorage, Move, KeepsWorld,
       Resaves, Steps
<1>6. CASE RemoveFromDB(p)
  BY Zenon, <1>6, <1>a, MoveDoes DEF RemoveFromDB, Move, KeepsWorld, Removes, Steps
<1>7. CASE FreeLock(p)
  <2>1. ~valid'[p]
    BY Zenon, <1>7 DEF FreeLock, TypeOK
  <2>2. QED
    BY Zenon, <1>7, <1>a, <2>1, MoveDoes DEF FreeLock, Move, KeepsWorld, Removes, Steps
<1>8. QED
  BY Zenon, <1>1, <1>2, <1>3, <1>4, <1>5, <1>6, <1>7 DEF Removing

\* WaitForExit, Sync, and a command whose container is gone.
LEMMA WaitingDoes ==
    ASSUME TypeOK, NEW p \in Procs, Waiting(p) \/ Removed(p)
    PROVE  Within(p) /\ Steps(p)
<1> USE DEF At, Doing, dbVars, ociVars, rmVars, procVars, userVars
<1>a. Within(p)
  <2>1. UNCHANGED <<valid, cmd, mem, begun, intent>>
    BY Zenon DEF Waiting, WaitForExit, WaitForConmon, WaitResult, Sync, Removed
  <2>2. /\ \E l : pc' = [pc EXCEPT ![p] = l]
        /\ err' = err \/ \E e : err' = [err EXCEPT ![p] = e]
        /\ conmonPID' = conmonPID \/ \E n : conmonPID' = [conmonPID EXCEPT ![p] = n]
    BY Zenon DEF Waiting, WaitForExit, WaitForConmon, WaitResult, Sync, Removed, Goto, Fail
  <2>3. QED
    BY Zenon, <2>1, <2>2, AloneIfOwn DEF Within
<1>b. mem'[p] = mem[p] /\ UNCHANGED valid /\ KeepsRows /\ KeepsWorld
  BY Zenon DEF Waiting, WaitForExit, WaitForConmon, WaitResult, Sync, Removed, KeepsRows,
     KeepsWorld
<1>1. CASE WaitForExit(p)
  <2>0. pc[p] = "body" /\ valid[p] /\ cmd[p] = "wait" /\ cmd[p] # "stop"
    BY Zenon, <1>1 DEF WaitForExit
  <2>1. CASE mem[p].PID # 0
    <3>1. conmonPID'[p] = mem[p].PID
      BY Zenon, <1>1, <2>1 DEF WaitForExit, TypeOK
    <3>2. QED
      BY Zenon, <1>1, <1>a, <1>b, <2>0, <2>1, <3>1, MoveDoes DEF WaitForExit, Move,
         Strolls, Steps
  <2>2. CASE mem[p].PID = 0
    BY Zenon, <1>1, <1>a, <1>b, <2>0, <2>2, MoveDoes DEF WaitForExit, Move, FailTo,
       Strolls, Steps
  <2>3. QED
    BY Zenon, <2>1, <2>2
<1>2. CASE WaitForConmon(p)
  BY Zenon, <1>2, <1>a, <1>b, MoveDoes DEF WaitForConmon, Move, Strolls, Steps
<1>3. CASE WaitResult(p)
  BY Zenon, <1>3, <1>a, <1>b, MoveDoes DEF WaitResult, Move, FailTo, Strolls, Steps
<1>4. CASE Sync(p)
  <2>1. cmd[p] # "stop" /\ pc[p] = "body" /\ Goto(p, "done")
    BY Zenon, <1>4 DEF Sync
  <2>2. QED
    BY Zenon, <1>a, <1>b, <2>1, MoveDoes DEF Move, Strolls, Steps
<1>5. CASE Removed(p)
  <2>1. pc[p] = "body" /\ ((Goto(p, "done") /\ cmd[p] # "stop") \/ Fail(p, "done"))
    BY Zenon, <1>5 DEF Removed, Cleaners
  <2>2. QED
    BY Zenon, <1>a, <1>b, <2>1, MoveDoes DEF Move, FailTo, Strolls, Steps
<1>6. QED
  BY Zenon, <1>1, <1>2, <1>3, <1>4, <1>5 DEF Waiting

\* Every step of a command but the first and the last is one of the kinds above.
LEMMA PodmanDoes ==
    ASSUME TypeOK, NEW p \in Procs, Podman(p)
    PROVE  LockAndSync(p) \/ Return(p) \/ (Within(p) /\ Steps(p))
  BY Zenon, StartingDoes, SignallingDoes, StoppingDoes, CleaningDoes, RemovingDoes,
     WaitingDoes DEF Podman

-----------------------------------------------------------------------------
(* The other steps *)

\* The row and the copy a process has after LockAndSync.
Enters(p) ==
    /\ Within(p) /\ lock = NoProc /\ KeepsWorld
    /\ err'[p] = err[p] /\ conmonPID'[p] = conmonPID[p] /\ UNCHANGED exists
    /\ \/ pc[p] = "lock" /\ pc'[p] = "body"
       \/ pc[p] = "stop_lock" /\ pc'[p] = "stop_check"
       \/ pc[p] = "exec_lock" /\ pc'[p] = "rm_mark"
       \/ pc[p] = "wait_lock" /\ pc'[p] = "wait_result"
    /\ IF exists /\ valid[p]
       THEN /\ valid'[p] /\ mem'[p] = db'
            /\ db'.StoppedByUser = db.StoppedByUser
            /\ db'.Mounted = db.Mounted /\ db'.NetNS = db.NetNS
            /\ IF SeesExit(db)
               THEN db'.State = "Stopped" /\ db'.PID = 0 /\ codeRow' = exitFile
               ELSE db'.State = db.State /\ db'.PID = db.PID /\ UNCHANGED codeRow
       ELSE ~valid'[p] /\ mem'[p] = mem[p] /\ UNCHANGED <<db, codeRow>>

\* A process returns or dies.
Leaves(p) ==
    /\ Alone(p) /\ KeepsRows /\ KeepsWorld /\ UNCHANGED begun
    /\ pc'[p] = "idle" /\ cmd'[p] = "none" /\ ~valid'[p] /\ ~err'[p]
    /\ \/ /\ pc[p] = "done"
          /\ intent' = IF cmd[p] = "stop" /\ intent = p /\ ~err[p] THEN "stopped" ELSE intent
       \/ PodmanMayDie /\ pc[p] \notin Inhibited /\ UNCHANGED intent

\* A command begins.
Begins(p) ==
    /\ Alone(p) /\ KeepsRows /\ KeepsWorld
    /\ exists /\ pc[p] = "idle" /\ pc'[p] = "lock" /\ valid'[p] /\ err'[p] = err[p]
    /\ mem'[p] = mem[p] /\ conmonPID'[p] = conmonPID[p]
    /\ \/ /\ cmd'[p] \in UserCommands
          /\ begun' = begun \cup ({cmd'[p]} \cap GoOn)
          /\ intent' = CASE cmd'[p] \in Starters -> "none"
                         [] /\ cmd'[p] = "stop"
                            /\ \A q \in Procs : cmd[q] \notin Starters -> p
                         [] OTHER -> intent
       \/ cmd'[p] \in (Cleaners \cup Stoppers) \ {"stop"} /\ UNCHANGED <<begun, intent>>

\* The container's process and conmon.
Outside ==
    /\ UNCHANGED <<pc, cmd, mem, valid, err, conmonPID, begun, intent, runs, ran>> /\ KeepsRows
    /\ \/ Live /\ oci' = DeadOci /\ UNCHANGED <<conmon, exitFile>>
       \/ \E r \in Runs :
             /\ conmon[r] = "monitoring" /\ ~Alive(r) /\ UNCHANGED oci
             /\ conmon' = [conmon EXCEPT ![r] = "exiting"]
             /\ exitFile'.run = r /\ exitFile' # NoFile
       \/ \E r \in Runs :
             /\ conmon[r] = "exiting" \/ (ConmonMayDie /\ conmon[r] = "monitoring")
             /\ conmon' = [conmon EXCEPT ![r] = "gone"] /\ UNCHANGED <<oci, exitFile>>

\* Nothing these proofs look at changes.
Quiet == /\ UNCHANGED <<pc, cmd, mem, valid, err, conmonPID, begun, intent>>
         /\ KeepsRows /\ KeepsWorld

\* A holder of the lock that is in the database has the row as its copy, and where
\* it is about to save, all but what it has changed.
LEMMA HolderHasRow ==
    ASSUME TypeOK, LockHeld, CopyIsCurrent, NEW p \in Procs, pc[p] \in Locked, valid[p]
    PROVE  /\ mem[p].Mounted = db.Mounted /\ mem[p].NetNS = db.NetNS
           /\ pc[p] \notin {"save", "save_created", "conmon"} => mem[p] = db
<1>1. IF Unsaved(p)
      THEN mem[p] = [db EXCEPT !.State = mem[p].State, !.PID = mem[p].PID,
                               !.StoppedByUser = mem[p].StoppedByUser]
      ELSE mem[p] = db
  BY Zenon DEF LockHeld, CopyIsCurrent
<1>2. db \in StateType
  BY Zenon DEF TypeOK
<1>3. [db EXCEPT !.State = mem[p].State, !.PID = mem[p].PID,
                 !.StoppedByUser = mem[p].StoppedByUser].Mounted = db.Mounted
  BY Zenon, <1>2 DEF StateType
<1>4. [db EXCEPT !.State = mem[p].State, !.PID = mem[p].PID,
                 !.StoppedByUser = mem[p].StoppedByUser].NetNS = db.NetNS
  BY Zenon, <1>2 DEF StateType
<1>5. QED
  BY Zenon, <1>1, <1>3, <1>4 DEF Unsaved

\* LockAndSync, entry by entry.
LEMMA LockAndSyncDoes ==
    ASSUME TypeOK, NEW p \in Procs, LockAndSync(p)
    PROVE  Enters(p)
<1> USE DEF ociVars, rmVars, userVars
<1>0. db \in StateType /\ mem \in [Procs -> StateType]
  BY Zenon DEF TypeOK
<1>1. /\ Within(p) /\ lock = NoProc /\ KeepsWorld
      /\ err'[p] = err[p] /\ conmonPID'[p] = conmonPID[p] /\ UNCHANGED exists
  <2>1. /\ lock = NoProc /\ KeepsWorld /\ UNCHANGED <<err, conmonPID, exists, cmd, begun, intent>>
        /\ \E l : pc' = [pc EXCEPT ![p] = l]
    BY Zenon DEF LockAndSync, Goto, KeepsWorld
  <2>2. /\ mem' = mem \/ \E s : mem' = [mem EXCEPT ![p] = s]
        /\ valid' = valid \/ \E v : valid' = [valid EXCEPT ![p] = v]
    BY Zenon DEF LockAndSync, syncContainer
  <2>3. QED
    BY Zenon, <2>1, <2>2, AloneIfOwn DEF Within
<1>2. \/ pc[p] = "lock" /\ pc'[p] = "body"
      \/ pc[p] = "stop_lock" /\ pc'[p] = "stop_check"
      \/ pc[p] = "exec_lock" /\ pc'[p] = "rm_mark"
      \/ pc[p] = "wait_lock" /\ pc'[p] = "wait_result"
  <2>1. pc'[p] = AfterLock[pc[p]] /\ pc[p] \in DOMAIN AfterLock
    BY Zenon, MoveDoes DEF LockAndSync
  <2>2. QED
    BY <2>1 DEF AfterLock
<1>3. CASE exists /\ valid[p]
  <2>1. db' = Synced(db) /\ RecordExit(db) /\ UNCHANGED valid /\ mem'[p] = Synced(db)
    BY Zenon, <1>0, <1>3 DEF LockAndSync, syncContainer
  <2>2. /\ Synced(db).StoppedByUser = db.StoppedByUser
        /\ Synced(db).Mounted = db.Mounted /\ Synced(db).NetNS = db.NetNS
        /\ IF SeesExit(db) THEN Synced(db).State = "Stopped" /\ Synced(db).PID = 0
           ELSE Synced(db).State = db.State /\ Synced(db).PID = db.PID
    BY Zenon, <1>0 DEF Synced, checkExitFile, StateType
  <2>3. QED
    BY Zenon, <1>1, <1>2, <1>3, <2>1, <2>2 DEF Enters, RecordExit
<1>4. CASE ~(exists /\ valid[p])
  <2>1. ~valid'[p] /\ UNCHANGED <<mem, db, codeRow>>
    BY Zenon, <1>4 DEF LockAndSync, syncContainer, TypeOK
  <2>2. QED
    BY Zenon, <1>1, <1>2, <1>4, <2>1 DEF Enters
<1>5. QED
  BY Zenon, <1>3, <1>4

\* Return and death: an error is saved with the row as it is.
LEMMA ReturnDoes ==
    ASSUME TypeOK, LockHeld, CopyIsCurrent, NEW p \in Procs, Return(p) \/ Die(p)
    PROVE  Leaves(p)
<1> USE DEF dbVars, ociVars, rmVars, userVars
<1>1. Alone(p)
  <2>1. /\ \E l : pc' = [pc EXCEPT ![p] = l] /\ \E s : mem' = [mem EXCEPT ![p] = s]
        /\ \E v : valid' = [valid EXCEPT ![p] = v] /\ \E e : err' = [err EXCEPT ![p] = e]
        /\ \E c : cmd' = [cmd EXCEPT ![p] = c]
        /\ \E n : conmonPID' = [conmonPID EXCEPT ![p] = n]
    BY Zenon DEF Return, Die
  <2>2. QED
    BY Zenon, <2>1, AloneIfOwn
<1>2. pc'[p] = "idle" /\ cmd'[p] = "none" /\ ~valid'[p] /\ ~err'[p]
  BY Zenon DEF Return, Die, TypeOK
<1>3. UNCHANGED <<exists, codeRow, begun>> /\ KeepsWorld
  BY Zenon DEF Return, Die, KeepsWorld
<1>4. UNCHANGED db
  <2>1. CASE Return(p) /\ valid[p]
    <3>1. pc[p] = "done" /\ pc[p] \in Locked
      BY Zenon, <2>1 DEF Return, At, Locked
    <3>2. mem[p] = db
      BY Zenon, <2>1, <3>1, HolderHasRow
    <3>3. QED
      BY Zenon, <2>1, <3>2 DEF Return
  <2>2. CASE ~(Return(p) /\ valid[p])
    BY Zenon, <2>2 DEF Return, Die
  <2>3. QED
    BY Zenon, <2>1, <2>2
<1>5. \/ /\ pc[p] = "done"
         /\ intent' = IF cmd[p] = "stop" /\ intent = p /\ ~err[p] THEN "stopped" ELSE intent
      \/ PodmanMayDie /\ pc[p] \notin Inhibited /\ UNCHANGED intent
  BY Zenon DEF Return, Die, At
<1>6. QED
  BY Zenon, <1>1, <1>2, <1>3, <1>4, <1>5 DEF Leaves, KeepsRows

\* The beginning of a command.
LEMMA BeginDoes ==
    ASSUME TypeOK, NEW p \in Procs,
           (\E c \in Commands : BeginUser(p, c)) \/ BeginCleanup(p) \/ BeginHealthStop(p)
    PROVE  Begins(p) \/ Quiet
<1> USE DEF dbVars, ociVars, rmVars, userVars
<1>0. KeepsRows /\ KeepsWorld /\ UNCHANGED <<mem, conmonPID>>
  BY Zenon DEF BeginUser, BeginCleanup, BeginHealthStop, KeepsRows, KeepsWorld
<1>a. ASSUME Goto(p, "lock"), NEW c, cmd' = [cmd EXCEPT ![p] = c],
             valid' = [valid EXCEPT ![p] = TRUE]
      PROVE  /\ Alone(p) /\ pc'[p] = "lock" /\ valid'[p] /\ err'[p] = err[p] /\ cmd'[p] = c
  <2>1. Alone(p)
    BY Zenon, <1>0, <1>a, AloneIfOwn DEF Goto
  <2>2. pc'[p] = "lock" /\ valid'[p] /\ err'[p] = err[p] /\ cmd'[p] = c
    BY Zenon, <1>a DEF Goto, TypeOK
  <2>3. QED
    BY Zenon, <2>1, <2>2
<1>1. ASSUME NEW c \in Commands, BeginUser(p, c) PROVE Begins(p)
  <2>1. /\ pc[p] = "idle" /\ exists /\ Alone(p) /\ pc'[p] = "lock" /\ valid'[p]
        /\ err'[p] = err[p] /\ cmd'[p] = c
    BY Zenon, <1>1, <1>a DEF BeginUser
  <2>2. /\ begun' = begun \cup ({c} \cap GoOn)
        /\ intent' = CASE c \in Starters -> "none"
                       [] c = "stop" /\ \A q \in Procs : cmd[q] \notin Starters -> p
                       [] OTHER -> intent
    BY Zenon, <1>1 DEF BeginUser
  <2>3. c \in UserCommands
    BY Zenon, ContainerAssumption
  <2>4. QED
    BY Zenon, <1>0, <2>1, <2>2, <2>3 DEF Begins
<1>2. CASE BeginCleanup(p)
  <2>1. CASE exists
    <3>1. /\ pc[p] = "idle" /\ UNCHANGED <<begun, intent>> /\ Alone(p)
          /\ pc'[p] = "lock" /\ valid'[p] /\ err'[p] = err[p]
          /\ cmd'[p] = "cleanup --stopped-only"
      BY Zenon, <1>2, <1>a, <2>1 DEF BeginCleanup
    <3>2. cmd'[p] \in (Cleaners \cup Stoppers) \ {"stop"}
      BY Zenon, <3>1 DEF Cleaners
    <3>3. QED
      BY Zenon, <1>0, <2>1, <3>1, <3>2 DEF Begins
  <2>2. CASE ~exists
    BY Zenon, <1>0, <1>2, <2>2 DEF BeginCleanup, Quiet
  <2>3. QED
    BY Zenon, <2>1, <2>2
<1>3. CASE BeginHealthStop(p)
  <2>1. /\ pc[p] = "idle" /\ exists /\ UNCHANGED <<begun, intent>> /\ Alone(p)
        /\ pc'[p] = "lock" /\ valid'[p] /\ err'[p] = err[p] /\ cmd'[p] = "health stop"
    BY Zenon, <1>3, <1>a DEF BeginHealthStop
  <2>2. cmd'[p] \in (Cleaners \cup Stoppers) \ {"stop"}
    BY Zenon, <2>1 DEF Stoppers
  <2>3. QED
    BY Zenon, <1>0, <2>1, <2>2 DEF Begins
<1>4. QED
  BY Zenon, <1>1, <1>2, <1>3

\* The steps of the container's process and of conmon.
LEMMA OutsideDoes ==
    ASSUME TypeOK, ContainerExits \/ \E r \in Runs : Conmon(r) \/ ConmonDies(r)
    PROVE  Outside
<1> USE DEF dbVars, ociVars, rmVars, procVars, userVars
<1>1. CASE ContainerExits
  <2>1. Live
    BY Zenon, <1>1 DEF ContainerExits, Live
  <2>2. QED
    BY Zenon, <1>1, <2>1 DEF ContainerExits, Outside, KeepsRows
<1>2. ASSUME NEW r \in Runs, ConmonReports(r) PROVE Outside
  <2>1. exitFile'.run = r /\ exitFile' # NoFile
    BY <1>2 DEF ConmonReports, NoFile, Runs
  <2>2. QED
    BY Zenon, <1>2, <2>1 DEF ConmonReports, Outside, KeepsRows
<1>3. ASSUME NEW r \in Runs, ConmonExits(r) PROVE Outside
  BY Zenon, <1>3 DEF ConmonExits, Outside, KeepsRows
<1>4. ASSUME NEW r \in Runs, ConmonDies(r) PROVE Outside
  BY Zenon, <1>4 DEF ConmonDies, Outside, KeepsRows
<1>5. QED
  BY Zenon, <1>1, <1>2, <1>3, <1>4 DEF Conmon

\* Every step is one of these kinds.
LEMMA NextDoes ==
    ASSUME TypeOK, LockHeld, CopyIsCurrent, [Next]_vars
    PROVE  \/ \E p \in Procs : \/ Begins(p) \/ Enters(p) \/ Leaves(p)
                               \/ Within(p) /\ Steps(p)
           \/ Outside \/ Quiet
<1>1. CASE UNCHANGED vars
  BY Zenon, <1>1 DEF vars, dbVars, ociVars, procVars, userVars, Quiet, KeepsRows, KeepsWorld
<1>2. ASSUME NEW p \in Procs, Podman(p) \/ Die(p)
      PROVE  Enters(p) \/ Leaves(p) \/ (Within(p) /\ Steps(p))
  BY Zenon, <1>2, PodmanDoes, LockAndSyncDoes, ReturnDoes
<1>3. QED
  BY Zenon, <1>1, <1>2, BeginDoes, OutsideDoes DEF Next

-----------------------------------------------------------------------------
(* Where a process can be *)

\* What holds at the places of the code whatever the other processes do: whether the
\* container is in the database, the state of the copy, the command.
Present(p) ==
    /\ pc[p] \in Locked /\ valid[p] /\ pc[p] # "rm_free" => exists
    /\ pc[p] \in Locked /\ ~valid[p] => ~exists
    /\ pc[p] = "rm_free" => ~exists
    /\ pc[p] \in Unlocked \ {"idle"} => valid[p]
    /\ pc[p] \in {"reinit", "create", "save_created", "start", "save", "conmon",
                  "exitwait", "rm_exec"} => valid[p]
    /\ pc[p] \in {"cl_net", "cl_runtime", "cl_storage"} /\ cmd[p] \in Removers /\ ~err[p]
         => valid[p]
Shape(p) ==
    /\ pc[p] \in {"create", "save_created"} => mem[p].State \in {"Configured", "Exited"}
    /\ pc[p] = "reinit" => mem[p].State = "Stopped"
    /\ pc[p] \in {"save", "conmon", "exitwait"} => mem[p].State \in MayRun
    /\ pc[p] \in {"save", "conmon"} /\ db.StoppedByUser => mem[p].StoppedByUser
    /\ pc[p] \in {"rm_storage", "rm_db"} => mem[p].State = "Removing"
Task(p) ==
    /\ pc[p] \in {"rm_exec", "exec_lock", "rm_mark", "rm_storage", "rm_db"} =>
         cmd[p] \in Removers /\ ~err[p]
    /\ pc[p] \in {"stop_ping", "stop_kill", "stop_lock", "stop_check", "conmon",
                  "exitwait"} => cmd[p] # "rm"
    /\ pc[p] = "rm_check" => cmd[p] = Forced
    /\ cmd[p] \in GoOn => cmd[p] \in begun
InPlace(p) == Present(p) /\ Shape(p) /\ Task(p)

PlaceInv == /\ \A p \in Procs : InPlace(p)
            /\ ~exists => db.State \notin MayRun

\* While one process is inside the critical section, another one is outside it and
\* stays there.
LEMMA HolderExcludes ==
    ASSUME LockHeld, LockHeld', NEW p \in Procs, NEW q \in Procs, q # p,
           pc[q] \in Locked, pc'[q] = pc[q]
    PROVE  pc[p] \notin Locked /\ pc'[p] \notin Locked
  BY Zenon DEF LockHeld

\* Outside the critical section a process changes nothing but, with a signal, the
\* state of the container in the runtime.
LEMMA OutsideLock ==
    ASSUME NEW p, Steps(p), pc[p] \notin Locked
    PROVE  /\ KeepsRows /\ mem'[p] = mem[p] /\ UNCHANGED <<valid, runs, conmon, exitFile, ran>>
           /\ UNCHANGED oci \/ (Live /\ oci' = DeadOci)
<1> USE DEF Locked, Move, FailTo
<1>1. Strolls(p) \/ StopKills(p)
  BY Zenon DEF Steps, ChecksStop, Resaves, Deletes, Creates, CreateFails, Created, Starts,
     SavesState, Signals, Stops, ReadsExit, DiesEarly, TimesOut, Marks, Removes
<1>2. QED
  BY Zenon, <1>1 DEF Strolls, StopKills, KeepsWorld

\* A step of p leaves the others in their places.
LEMMA OthersInPlace ==
    ASSUME TypeOK, LockHeld, LockHeld', CopyIsCurrent, NEW p \in Procs, NEW q \in Procs,
           q # p, InPlace(q),
           Begins(p) \/ Enters(p) \/ Leaves(p) \/ (Within(p) /\ Steps(p))
    PROVE  InPlace(q)'
<1>1. /\ pc'[q] = pc[q] /\ mem'[q] = mem[q] /\ valid'[q] = valid[q] /\ err'[q] = err[q]
      /\ cmd'[q] = cmd[q]
  BY Zenon DEF Begins, Enters, Leaves, Within, Alone
<1>2. begun \subseteq begun'
  BY Zenon DEF Begins, Enters, Leaves, Within
<1>3. ASSUME pc[q] \in Locked PROVE exists' = exists /\ db' = db
  <2>1. pc[p] \notin Locked /\ pc'[p] \notin Locked
    BY Zenon, <1>1, <1>3, HolderExcludes
  <2>2. ~Enters(p)
    BY Zenon, <1>3, ContainerAssumption DEF Enters, LockHeld
  <2>3. QED
    BY Zenon, <2>1, <2>2, OutsideLock DEF Begins, Leaves, KeepsRows
<1>4. QED
  BY <1>1, <1>2, <1>3 DEF InPlace, Present, Shape, Task, Locked

\* Every kind of step takes a process to a place it fits.
LEMMA StepInPlace ==
    ASSUME TypeOK, LockHeld, CopyIsCurrent, NEW p \in Procs, InPlace(p),
           Begins(p) \/ Enters(p) \/ Leaves(p) \/ (Within(p) /\ Steps(p))
    PROVE  InPlace(p)'
<1> USE DEF Locked, Unlocked, MayRun, Move, FailTo
<1>0. /\ Present(p) /\ Shape(p) /\ Task(p)
      /\ pc[p] \in Locked /\ valid[p] /\ pc[p] \notin {"save", "save_created", "conmon"}
           => mem[p] = db
  BY Zenon, HolderHasRow DEF InPlace
<1>a. begun \subseteq begun'
  BY Zenon DEF Begins, Enters, Leaves, Within
<1>1. CASE Begins(p)
  <2>1. cmd'[p] \in GoOn => cmd'[p] \in begun'
    BY Zenon, <1>1, CommandSets DEF Begins, Stoppers
  <2>2. QED
    BY Zenon, <1>1, <2>1 DEF Begins, InPlace, Present, Shape, Task
<1>2. CASE Enters(p)
  BY Zenon, <1>0, <1>2 DEF Enters, Within, InPlace, Present, Shape, Task
<1>3. CASE Leaves(p)
  BY Zenon, <1>3, CommandSets DEF Leaves, InPlace, Present, Shape, Task
<1>4. CASE Within(p) /\ Steps(p)
  <2> USE <1>4 DEF Within, KeepsRows
  <2>1. CASE Strolls(p)
    <3>1. Present(p)'
      BY Zenon, <1>0, <2>1 DEF Strolls, Present
    <3>2. Shape(p)'
      BY Zenon, <1>0, <2>1 DEF Strolls, Shape
    <3>3. Task(p)'
      BY Zenon, <1>0, <2>1 DEF Strolls, Task
    <3>4. QED
      BY Zenon, <3>1, <3>2, <3>3 DEF InPlace
  <2> USE DEF InPlace, Present, Shape, Task
  <2>2. CASE ChecksStop(p)
    BY Zenon, <1>0, <2>2, CommandSets DEF ChecksStop, Copy
  <2>3. CASE Resaves(p)
    <3> HIDE DEF Present, Shape, Task
    <3>1. Present(p)'
      BY Zenon, <1>0, <2>3 DEF Resaves, Present
    <3>2. Shape(p)'
      BY Zenon, <1>0, <2>3 DEF Resaves, SameCopy, Copy, Shape
    <3>3. Task(p)'
      BY Zenon, <1>0, <2>3 DEF Resaves, Task
    <3>4. QED
      BY Zenon, <3>1, <3>2, <3>3 DEF InPlace
  <2>4. CASE Deletes(p)
    BY Zenon, <1>0, <2>4 DEF Deletes, Copy
  <2>5. CASE Creates(p)
    BY Zenon, <1>0, <2>5 DEF Creates, Copy
  <2>6. CASE CreateFails(p)
    BY Zenon, <1>0, <2>6 DEF CreateFails
  <2>7. CASE Created(p)
    BY Zenon, <1>0, <2>7 DEF Created, Copy
  <2>8. CASE Starts(p)
    BY Zenon, <1>0, <2>8 DEF Starts, Copy
  <2>9. CASE SavesState(p)
    BY Zenon, <1>0, <2>9 DEF SavesState
  <2>10. CASE Signals(p)
    BY Zenon, <1>0, <2>10, CommandSets DEF Signals
  <2>11. CASE Stops(p)
    BY Zenon, <1>0, <2>11, CommandSets DEF Stops, Stoppers
  <2>12. CASE StopKills(p)
    BY Zenon, <1>0, <2>12 DEF StopKills
  <2>13. CASE ReadsExit(p)
    BY Zenon, <1>0, <2>13, CommandSets DEF ReadsExit
  <2>14. CASE DiesEarly(p)
    BY Zenon, <1>0, <2>14 DEF DiesEarly
  <2>15. CASE TimesOut(p)
    BY Zenon, <1>0, <2>15 DEF TimesOut
  <2>16. CASE Marks(p)
    BY Zenon, <1>0, <2>16 DEF Marks, Copy
  <2>17. CASE Removes(p)
    BY <1>0, <2>17 DEF Removes
  <2>18. QED
    BY Zenon, <2>1, <2>2, <2>3, <2>4, <2>5, <2>6, <2>7, <2>8, <2>9, <2>10, <2>11, <2>12,
       <2>13, <2>14, <2>15, <2>16, <2>17 DEF Steps
<1>5. QED
  BY Zenon, <1>1, <1>2, <1>3, <1>4

\* What was removed is not marked running: a row is marked as being removed before
\* it is deleted, and is not written any more.
LEMMA StepRemovedRow ==
    ASSUME TypeOK, LockHeld, CopyIsCurrent, NEW p \in Procs, PlaceInv,
           Begins(p) \/ Enters(p) \/ Leaves(p) \/ (Within(p) /\ Steps(p)), ~exists'
    PROVE  db'.State \notin MayRun
<1>0. InPlace(p) /\ (~exists => db.State \notin MayRun)
  BY Zenon DEF PlaceInv
<1>1. CASE ~exists
  <2>1. db' = db
    <3>1. ASSUME pc[p] \in Locked PROVE pc[p] = "rm_free" \/ ~valid[p]
      BY Zenon, <1>0, <1>1, <3>1 DEF InPlace, Present
    <3>2. CASE Begins(p) \/ Enters(p) \/ Leaves(p)
      BY Zenon, <1>1, <3>2 DEF Begins, Enters, Leaves, KeepsRows
    <3>3. CASE pc[p] \notin Locked /\ Steps(p)
      BY Zenon, <3>3, OutsideLock DEF KeepsRows
    <3>4. CASE pc[p] \in Locked /\ Steps(p)
      BY Zenon, <3>1, <3>4 DEF Steps, Strolls, ChecksStop, Resaves, Deletes, Creates, CreateFails,
         Created, Starts, SavesState, Signals, Stops, StopKills, ReadsExit, DiesEarly,
         TimesOut, Marks, Removes, Saved, KeepsRows, Move, FailTo
    <3>5. QED
      BY Zenon, <3>2, <3>3, <3>4
  <2>2. QED
    BY Zenon, <1>0, <1>1, <2>1
<1>2. CASE exists
  <2>1. Removes(p) /\ pc[p] = "rm_db"
    BY Zenon, <1>2 DEF Begins, Enters, Leaves, Steps, Strolls, ChecksStop, Resaves, Deletes,
       Creates, CreateFails, Created, Starts, SavesState, Signals, Stops, StopKills,
       ReadsExit, DiesEarly, TimesOut, Marks, Removes, KeepsRows, Move
  <2>2. valid[p] /\ mem[p].State = "Removing" /\ pc[p] \in Locked
    BY Zenon, <1>0, <1>2, <2>1 DEF InPlace, Present, Shape, Locked
  <2>3. mem[p] = db
    BY Zenon, <2>1, <2>2, HolderHasRow
  <2>4. QED
    BY Zenon, <2>1, <2>2, <2>3 DEF Removes, MayRun
<1>3. QED
  BY Zenon, <1>1, <1>2

\* The places are an invariant.
LEMMA NextPlaces ==
    TypeOK /\ LockHeld /\ LockHeld' /\ CopyIsCurrent /\ PlaceInv /\ [Next]_vars => PlaceInv'
<1> SUFFICES ASSUME TypeOK, LockHeld, LockHeld', CopyIsCurrent, PlaceInv, [Next]_vars
             PROVE  PlaceInv'
  BY Zenon
<1>1. CASE Outside \/ Quiet
  <2>1. UNCHANGED <<pc, mem, valid, err, cmd, begun, exists, db>>
    BY Zenon, <1>1 DEF Outside, Quiet, KeepsRows
  <2>2. QED
    BY Zenon, <2>1 DEF PlaceInv, InPlace, Present, Shape, Task
<1>2. ASSUME NEW p \in Procs, Begins(p) \/ Enters(p) \/ Leaves(p) \/ (Within(p) /\ Steps(p))
      PROVE  PlaceInv'
  <2>1. ASSUME NEW q \in Procs PROVE InPlace(q)'
    BY Zenon, <1>2, OthersInPlace, StepInPlace DEF PlaceInv
  <2>2. ~exists' => db'.State \notin MayRun
    BY Zenon, <1>2, StepRemovedRow
  <2>3. QED
    BY Zenon, <2>1, <2>2 DEF PlaceInv
<1>3. QED
  BY Zenon, <1>1, <1>2, NextDoes

\* At first nobody is inside and the container is in no state to run.
LEMMA InitPlaces == Init => LockHeld /\ CopyIsCurrent /\ PlaceInv
  BY ContainerAssumption, CommandSets DEF Init, LockHeld, CopyIsCurrent, Locked, Unlocked,
     PlaceInv, InPlace, Present, Shape, Task, MayRun, Blank

-----------------------------------------------------------------------------
(* A running container keeps its resources *)

Furnished(s) == s.Mounted /\ s.NetNS
Busy(s) == s.State \in {"Running", "Paused"}

\* The mounts and the network are there before the container is created, and no
\* process cleans up while its copy says that the container runs.
Keeps(p) ==
    /\ pc[p] \in {"reinit", "create", "save_created", "start"} => Furnished(mem[p])
    /\ pc[p] \in {"save", "conmon"} /\ Busy(mem[p]) => Furnished(mem[p])
    /\ pc[p] \in {"prepare", "start", "restart_net", "cl_net", "cl_runtime", "cl_storage",
                  "rm_storage"} => ~Busy(mem[p])

KeepInv == begun = {} => /\ Busy(db) => Furnished(db)
                         /\ \A p \in Procs : Keeps(p)

\* One step of a process.
LEMMA StepKeeps ==
    ASSUME TypeOK, LockHeld, CopyIsCurrent, NEW p \in Procs, InPlace(p), begun = {},
           Busy(db) => Furnished(db), Keeps(p),
           Begins(p) \/ Enters(p) \/ Leaves(p) \/ (Within(p) /\ Steps(p))
    PROVE  Keeps(p)' /\ (Busy(db') => Furnished(db'))
<1> USE DEF Keeps, Busy, Furnished, KeepsRows, Move, FailTo
<1>0. /\ pc[p] \in Locked /\ valid[p] =>
           /\ mem[p].Mounted = db.Mounted /\ mem[p].NetNS = db.NetNS
           /\ pc[p] \notin {"save", "save_created", "conmon"} => mem[p] = db
      /\ Present(p) /\ Shape(p)
      /\ cmd[p] # "restart" /\ pc[p] # "rm_check"
      /\ pc[p] \in {"stop_check", "conmon", "exitwait"} => cmd[p] \notin Removers
  BY Zenon, HolderHasRow, CommandSets DEF InPlace, Task
<1>1. CASE Begins(p) \/ Leaves(p)
  BY Zenon, <1>1 DEF Begins, Leaves
<1>2. CASE Enters(p)
  BY Zenon, <1>2 DEF Enters
<1>3. CASE Within(p) /\ Steps(p)
  <2>1. CASE Strolls(p)
    BY Zenon, <1>0, <2>1 DEF Strolls
  <2>2. CASE ChecksStop(p)
    BY Zenon, <1>0, <2>2 DEF ChecksStop
  <2>3. CASE Resaves(p)
    BY Zenon, <1>0, <2>3 DEF Resaves, Saved, SameCopy, Copy, Resources, Locked
  <2>4. CASE Deletes(p)
    BY Zenon, <1>0, <2>4 DEF Deletes, Saved, Copy, SameResources, Resources
  <2>5. CASE Creates(p)
    BY Zenon, <1>0, <2>5 DEF Creates, Copy, SameResources, Resources
  <2>6. CASE CreateFails(p)
    BY Zenon, <1>0, <2>6 DEF CreateFails, Shape
  <2>7. CASE Created(p)
    BY Zenon, <1>0, <2>7 DEF Created, Saved, Copy, SameResources, Resources
  <2>8. CASE Starts(p)
    BY Zenon, <1>0, <2>8 DEF Starts, Copy, SameResources, Resources
  <2>9. CASE SavesState(p)
    BY Zenon, <1>0, <2>9 DEF SavesState, Saved
  <2>10. CASE Signals(p)
    BY Zenon, <1>0, <2>10 DEF Signals, SameResources, Resources, Locked, MayRun
  <2>11. CASE Stops(p)
    BY Zenon, <1>0, <2>11 DEF Stops, Saved, Copy, SameResources, Resources, Locked
  <2>12. CASE StopKills(p)
    BY Zenon, <1>0, <2>12 DEF StopKills
  <2>13. CASE ReadsExit(p)
    BY Zenon, <1>0, <2>13 DEF ReadsExit, Saved, Copy, SameResources, Resources, Locked
  <2>14. CASE DiesEarly(p)
    BY Zenon, <1>0, <2>14 DEF DiesEarly, Saved, Copy
  <2>15. CASE TimesOut(p)
    BY Zenon, <1>0, <2>15 DEF TimesOut, Saved, Copy
  <2>16. CASE Marks(p)
    BY Zenon, <1>0, <2>16 DEF Marks, Saved, Copy
  <2>17. CASE Removes(p)
    BY Zenon, <1>0, <2>17 DEF Removes
  <2>18. QED
    BY Zenon, <1>3, <2>1, <2>2, <2>3, <2>4, <2>5, <2>6, <2>7, <2>8, <2>9, <2>10, <2>11,
       <2>12, <2>13, <2>14, <2>15, <2>16, <2>17 DEF Steps
<1>4. QED
  BY Zenon, <1>1, <1>2, <1>3

\* Whatever happens, as long as nobody has begun to restart or to remove by force.
LEMMA NextKeeps ==
    TypeOK /\ LockHeld /\ CopyIsCurrent /\ PlaceInv /\ KeepInv /\ [Next]_vars => KeepInv'
<1> SUFFICES ASSUME TypeOK, LockHeld, CopyIsCurrent, PlaceInv, KeepInv, [Next]_vars,
                    begun' = {}
             PROVE  KeepInv'
  BY Zenon DEF KeepInv
<1>1. CASE Outside \/ Quiet
  <2>1. UNCHANGED <<pc, mem, begun, db>>
    BY Zenon, <1>1 DEF Outside, Quiet, KeepsRows
  <2>2. QED
    BY Zenon, <2>1 DEF KeepInv, Keeps
<1>2. ASSUME NEW p \in Procs, Begins(p) \/ Enters(p) \/ Leaves(p) \/ (Within(p) /\ Steps(p))
      PROVE  KeepInv'
  <2>1. begun = {}
    <3>1. begun \subseteq begun'
      BY Zenon, <1>2 DEF Begins, Enters, Leaves, Within
    <3>2. QED
      BY Zenon, <3>1
  <2>2. Keeps(p)' /\ (Busy(db') => Furnished(db'))
    BY Zenon, <1>2, <2>1, StepKeeps DEF KeepInv, PlaceInv
  <2>3. ASSUME NEW q \in Procs, q # p PROVE Keeps(q)'
    <3>1. pc'[q] = pc[q] /\ mem'[q] = mem[q]
      BY Zenon, <1>2, <2>3 DEF Begins, Enters, Leaves, Within, Alone
    <3>2. QED
      BY Zenon, <2>1, <3>1 DEF KeepInv, Keeps
  <2>4. QED
    BY Zenon, <2>2, <2>3 DEF KeepInv
<1>3. QED
  BY Zenon, <1>1, <1>2, NextDoes

\* A container the database calls running or paused has its mounts and its network,
\* as long as nobody has run a command that stops it and goes on (restart, rm -f):
\* whatever start, stop, kill, pause, cleanup, the restart policy and removal do at
\* the same time, and wherever podman is killed (prepare, cleanup, cleanupStorage).
THEOREM ResourcesAreKept == Spec => []RunningKeepsResources
<1>1. Init => KeepInv
  BY Zenon DEF Init, KeepInv, Keeps, Busy, Blank
<1>2. KeepInv => RunningKeepsResources
  BY Zenon DEF KeepInv, RunningKeepsResources, Busy, Furnished
<1>3. QED
  BY <1>1, <1>2, InitTypeOK, NextTypeOK, NextLockHeld, NextIsCurrent, InitPlaces, NextPlaces,
     NextKeeps, PTL DEF Spec

-----------------------------------------------------------------------------
(* One run at a time *)

\* A step of a process that creates no new run leaves the runs, their conmons and
\* the container's identity alone, and brings nothing to life.
LEMMA TameStep ==
    ASSUME TypeOK, NEW p \in Procs, ~Creates(p),
           Begins(p) \/ Enters(p) \/ Leaves(p) \/ (Within(p) /\ Steps(p))
    PROVE  /\ UNCHANGED <<runs, conmon>> /\ exitFile' \in {exitFile, NoFile}
           /\ oci'.st # "absent" => oci.st # "absent" /\ oci'.run = oci.run
           /\ Live' => Live
<1>0. /\ NoOci.st = "absent"
      /\ DeadOci.st = "stopped" /\ DeadOci.run = oci.run
      /\ [oci EXCEPT !.st = "running"].run = oci.run
  <2>1. oci \in OciType
    BY Zenon DEF TypeOK
  <2>2. QED
    BY Zenon, <2>1 DEF NoOci, DeadOci, OciType
<1> HIDE DEF NoOci, DeadOci
<1>1. CASE KeepsWorld
  BY Zenon, <1>1 DEF KeepsWorld, Live
<1>2. CASE ~KeepsWorld
  <2>1. Steps(p)
    BY Zenon, <1>2 DEF Begins, Enters, Leaves
  <2>2. Deletes(p) \/ CreateFails(p) \/ Starts(p) \/ Signals(p) \/ StopKills(p) \/ DiesEarly(p)
    BY Zenon, <1>2, <2>1 DEF Steps, Strolls, ChecksStop, Resaves, Created, SavesState, Stops,
       ReadsExit, TimesOut, Marks, Removes
  <2>3. QED
    BY Zenon, <1>0, <2>2 DEF Deletes, CreateFails, Starts, Signals, StopKills, DiesEarly, Live, Alive
<1>3. QED
  BY Zenon, <1>1, <1>2

\* What the runtime has, the conmon that monitors it and the exit file are of the
\* latest run.
OneRun ==
    /\ oci.st # "absent" => oci.run = runs
    /\ \A r \in Runs : conmon[r] = "monitoring" => r = runs
    /\ exitFile # NoFile => exitFile.run = runs /\ ~Live

\* So is the PID of the row, and of a copy that is about to be saved.
HasRun(p) == pc[p] \in {"save_created", "save", "conmon"} => mem[p].PID = runs
RowRun ==
    /\ db.State \in {"Created"} \cup MayRun => db.PID = runs
    /\ Live => db.PID = runs \/ \E p \in Procs : pc[p] = "save_created"

RunInv == OneRun /\ RowRun /\ \A p \in Procs : HasRun(p)

\* Of the steps of processes, init must find no conmon at work.
LEMMA StepOneRun ==
    ASSUME TypeOK, ~LateExitFile, NEW p \in Procs, OneRun,
           Begins(p) \/ Enters(p) \/ Leaves(p) \/ (Within(p) /\ Steps(p))
    PROVE  OneRun'
<1>1. CASE ~Creates(p)
  <2>1. /\ UNCHANGED <<runs, conmon>> /\ exitFile' \in {exitFile, NoFile}
        /\ oci'.st # "absent" => oci.st # "absent" /\ oci'.run = oci.run
        /\ Live' => Live
    BY Zenon, <1>1, TameStep
  <2>2. QED
    BY Zenon, <2>1 DEF OneRun
<1>2. CASE Creates(p)
  <2>1. conmon \in [Runs -> {"none", "monitoring", "exiting", "gone"}]
    BY Zenon DEF TypeOK
  <2>2. QED
    BY Zenon, <1>2, <2>1 DEF Creates, OneRun
<1>3. QED
  BY Zenon, <1>1, <1>2

\* The container's process and conmon.
LEMMA OutsideOneRun ==
    ASSUME TypeOK, OneRun, Outside
    PROVE  OneRun' /\ (Live' => Live) /\ UNCHANGED runs
<1>0. /\ DeadOci.st = "stopped" /\ DeadOci.run = oci.run
      /\ conmon \in [Runs -> {"none", "monitoring", "exiting", "gone"}]
  <2>1. oci \in OciType /\ conmon \in [Runs -> {"none", "monitoring", "exiting", "gone"}]
    BY Zenon DEF TypeOK
  <2>2. QED
    BY Zenon, <2>1 DEF DeadOci, OciType
<1> HIDE DEF DeadOci
<1>1. CASE Live /\ oci' = DeadOci /\ UNCHANGED <<conmon, exitFile, runs>>
  BY Zenon, <1>0, <1>1 DEF OneRun, Live
<1>2. ASSUME NEW r \in Runs, conmon[r] = "monitoring", ~Alive(r), UNCHANGED <<oci, runs>>,
             conmon' = [conmon EXCEPT ![r] = "exiting"], exitFile'.run = r
      PROVE  OneRun' /\ (Live' => Live)
  BY Zenon, <1>0, <1>2 DEF OneRun, Alive, Live
<1>3. ASSUME NEW r \in Runs, UNCHANGED <<oci, runs, exitFile>>,
             conmon' = [conmon EXCEPT ![r] = "gone"]
      PROVE  OneRun' /\ (Live' => Live)
  BY Zenon, <1>0, <1>3 DEF OneRun, Live
<1>4. QED
  BY Zenon, <1>1, <1>2, <1>3 DEF Outside

\* One step of a process: its copy and the row.
LEMMA StepRowRun ==
    ASSUME TypeOK, LockHeld, LockHeld', CopyIsCurrent, NEW p \in Procs, InPlace(p), OneRun,
           RowRun, HasRun(p),
           Begins(p) \/ Enters(p) \/ Leaves(p) \/ (Within(p) /\ Steps(p))
    PROVE  HasRun(p)' /\ RowRun'
<1>0. /\ pc[p] \in Locked /\ valid[p] /\ pc[p] \notin {"save", "save_created", "conmon"}
           => mem[p] = db
      /\ Present(p) /\ Shape(p)
  BY Zenon, HolderHasRow DEF InPlace
<1>a. ASSUME NEW q \in Procs, pc[q] = "save_created", q # p
      PROVE  pc'[q] = "save_created" /\ pc[p] \notin Locked /\ pc'[p] \notin Locked
  <2>1. pc'[q] = pc[q]
    BY Zenon, <1>a DEF Begins, Enters, Leaves, Within, Alone
  <2>2. QED
    BY Zenon, <1>a, <2>1, HolderExcludes DEF Locked
\* A step that keeps the row, or its PID, and the run.
<1>b. ASSUME UNCHANGED runs, Live' => Live, db'.PID = db.PID,
             pc[p] = "save_created" => pc'[p] = "save_created",
             db'.State \in {"Created"} \cup MayRun => db.State \in {"Created"} \cup MayRun
      PROVE  RowRun'
  <2>1. CASE Live' /\ db.PID # runs
    <3>1. PICK q \in Procs : pc[q] = "save_created"
      BY Zenon, <1>b, <2>1 DEF RowRun
    <3>2. pc'[q] = "save_created"
      BY Zenon, <1>a, <1>b, <3>1
    <3>3. QED
      BY Zenon, <1>b, <3>2 DEF RowRun
  <2>2. CASE ~(Live' /\ db.PID # runs)
    BY Zenon, <1>b, <2>2 DEF RowRun
  <2>3. QED
    BY Zenon, <2>1, <2>2
<1>c. ASSUME pc[p] \in Locked \ {"save_created"} PROVE Live => db.PID = runs
  BY Zenon, <1>a, <1>c DEF RowRun, Locked
<1>d. ~Creates(p) => UNCHANGED runs /\ (Live' => Live)
  BY Zenon, TameStep
<1> USE DEF HasRun, KeepsRows, Move, FailTo
<1>1. CASE Begins(p) \/ Leaves(p)
  <2>1. /\ UNCHANGED <<runs, db, oci>> /\ pc'[p] \in {"idle", "lock"}
        /\ pc[p] # "save_created"
    BY Zenon, <1>1 DEF Begins, Leaves, KeepsWorld, Inhibited
  <2>2. QED
    BY Zenon, <1>b, <2>1 DEF Live
<1>2. CASE Enters(p)
  <2>1. /\ UNCHANGED <<runs, oci, exitFile>> /\ pc'[p] \notin {"save", "save_created", "conmon"}
        /\ pc[p] # "save_created"
    BY Zenon, <1>2 DEF Enters, KeepsWorld
  <2>2. CASE exists /\ valid[p] /\ SeesExit(db)
    <3>1. ~Live /\ db'.State = "Stopped"
      BY Zenon, <1>2, <2>2 DEF Enters, SeesExit, OneRun
    <3>2. QED
      BY Zenon, <2>1, <3>1 DEF RowRun, MayRun, Live
  <2>3. CASE ~(exists /\ valid[p] /\ SeesExit(db))
    <3>1. db'.PID = db.PID /\ db'.State = db.State
      BY Zenon, <1>2, <2>3 DEF Enters
    <3>2. QED
      BY Zenon, <1>b, <2>1, <3>1 DEF Live
  <2>4. QED
    BY Zenon, <2>2, <2>3
<1>3. CASE Within(p) /\ Steps(p)
  <2>1. CASE Strolls(p)
    BY Zenon, <1>b, <1>d, <2>1 DEF Strolls, KeepsWorld, Live
  <2>2. CASE ChecksStop(p)
    <3>1. HasRun(p)'
      BY Zenon, <1>0, <2>2 DEF ChecksStop, KeepsWorld, RowRun, MayRun, Locked
    <3>2. QED
      BY Zenon, <1>b, <2>2, <3>1 DEF ChecksStop, KeepsWorld, Live
  <2>3. CASE Resaves(p)
    <3>1. db'.State = db.State /\ db'.PID = db.PID
      BY Zenon, <1>0, <2>3 DEF Resaves, Saved, SameCopy, Copy, Locked
    <3>2. QED
      BY Zenon, <1>b, <2>3, <3>1 DEF Resaves, KeepsWorld, Live
  <2>4. CASE Deletes(p)
    <3>1. oci'.st = "absent" /\ db'.State \in {"Exited", "Configured", db.State} /\ db'.PID = db.PID
      BY Zenon, <1>0, <2>4 DEF Deletes, Saved, Copy, Locked, NoOci
    <3>2. QED
      BY Zenon, <2>4, <3>1 DEF Deletes, RowRun, MayRun, Live
  <2>5. CASE Creates(p)
    <3>1. mem[p] = db /\ mem[p].State \in {"Configured", "Exited"}
      BY Zenon, <1>0, <2>5 DEF Creates, Present, Shape, Locked
    <3>2. QED
      BY Zenon, <2>5, <3>1 DEF Creates, Copy, RowRun, MayRun
  <2>6. CASE CreateFails(p)
    <3>1. /\ ~Creates(p) /\ UNCHANGED db
          /\ pc'[p] \in {"done", "cl_net"} /\ pc[p] # "save_created"
      BY Zenon, <2>6 DEF CreateFails, Creates
    <3>2. QED
      BY Zenon, <1>b, <1>d, <3>1
  <2>7. CASE Created(p)
    BY Zenon, <1>0, <2>7 DEF Created, Saved, Copy, KeepsWorld, Present, RowRun
  <2>8. CASE Starts(p)
    <3>1. Live /\ valid[p] /\ mem[p] = db
      BY Zenon, <1>0, <2>8 DEF Starts, Live, Present, Locked
    <3>2. db.PID = runs
      BY Zenon, <1>c, <2>8, <3>1 DEF Starts, Locked
    <3>3. QED
      BY Zenon, <2>8, <3>1, <3>2 DEF Starts, Copy, RowRun
  <2>9. CASE SavesState(p)
    BY Zenon, <1>0, <2>9 DEF SavesState, Saved, KeepsWorld, Present, RowRun
  <2>10. CASE Signals(p)
    <3>1. mem[p].PID = runs
      BY Zenon, <1>0, <2>10 DEF Signals, RowRun, Locked
    <3>2. QED
      BY Zenon, <1>b, <1>d, <2>10, <3>1 DEF Signals
  <2>11. CASE Stops(p)
    <3>1. mem[p] = db /\ db' = mem'[p]
      BY Zenon, <1>0, <2>11 DEF Stops, Saved, Locked
    <3>2. db'.PID = db.PID /\ pc'[p] \in {"stop_ping", "done"} /\ UNCHANGED <<oci, runs>>
      BY Zenon, <2>11, <3>1 DEF Stops, Copy, KeepsWorld
    <3>3. db'.State = "Stopping" => db.State \in {"Created"} \cup MayRun
      BY Zenon, <2>11, <3>1 DEF Stops, Copy, MayRun
    <3>4. db'.State = "Stopping" \/ db'.State = db.State
      BY Zenon, <2>11, <3>1 DEF Stops, Copy
    <3>5. QED
      BY Zenon, <1>b, <2>11, <3>2, <3>3, <3>4 DEF Live, Stops
  <2>12. CASE StopKills(p)
    <3>1. /\ ~Creates(p) /\ UNCHANGED db
          /\ pc'[p] = "stop_lock" /\ pc[p] # "save_created"
      BY Zenon, <2>12 DEF StopKills, Creates
    <3>2. QED
      BY Zenon, <1>b, <1>d, <3>1
  <2>13. CASE ReadsExit(p)
    <3>1. valid[p] /\ pc[p] \in Locked
      BY Zenon, <1>0, <2>13 DEF ReadsExit, Present, Locked
    <3>2. CASE SeesExit(mem[p])
      <4>1. ~Live' /\ db'.State = "Stopped" /\ pc'[p] \in {"done", "restart_net", "rm_check"}
        BY Zenon, <2>13, <3>1, <3>2 DEF ReadsExit, Saved, Copy, SeesExit, KeepsWorld, OneRun, Live
      <4>2. QED
        BY Zenon, <4>1 DEF RowRun, MayRun
    <3>3. CASE ~SeesExit(mem[p])
      <4>1. CASE pc[p] = "conmon"
        BY Zenon, <2>13, <3>1, <3>3, <4>1 DEF ReadsExit, Saved, KeepsWorld, RowRun
      <4>2. CASE pc[p] = "exitwait"
        BY Zenon, <1>0, <1>b, <2>13, <3>1, <3>3, <4>2 DEF ReadsExit, Saved, KeepsWorld, Live
      <4>3. QED
        BY Zenon, <2>13, <4>1, <4>2 DEF ReadsExit
    <3>4. QED
      BY Zenon, <3>2, <3>3
  <2>14. CASE DiesEarly(p)
    <3>1. valid[p] /\ mem[p].PID = runs
      BY Zenon, <1>0, <2>14 DEF DiesEarly, Present
    <3>2. DeadOci.st = "stopped"
      BY Zenon DEF DeadOci, TypeOK, OciType
    <3>3. ~Live'
      BY Zenon, <2>14, <3>1, <3>2 DEF DiesEarly, Alive, Live, OneRun
    <3>4. QED
      BY Zenon, <2>14, <3>1, <3>3 DEF DiesEarly, Saved, Copy, RowRun, MayRun
  <2>15. CASE TimesOut(p)
    <3>1. mem[p] = db
      BY Zenon, <1>0, <2>15 DEF TimesOut, Present, Locked
    <3>2. QED
      BY Zenon, <1>b, <2>15, <3>1 DEF TimesOut, Saved, Copy, KeepsWorld, MayRun, Live
  <2>16. CASE Marks(p)
    <3>1. db'.PID = db.PID /\ db'.State \in {"Removing", db.State}
      BY Zenon, <1>0, <2>16 DEF Marks, Saved, Copy, Locked
    <3>2. QED
      BY Zenon, <1>b, <2>16, <3>1 DEF Marks, KeepsWorld, MayRun, Live
  <2>17. CASE Removes(p)
    BY Zenon, <1>b, <2>17 DEF Removes, KeepsWorld, Live
  <2>18. QED
    BY Zenon, <1>3, <2>1, <2>2, <2>3, <2>4, <2>5, <2>6, <2>7, <2>8, <2>9, <2>10, <2>11,
       <2>12, <2>13, <2>14, <2>15, <2>16, <2>17 DEF Steps
<1>4. QED
  BY Zenon, <1>1, <1>2, <1>3

\* The copies of the others.
LEMMA OthersHaveRun ==
    ASSUME TypeOK, LockHeld, LockHeld', NEW p \in Procs, NEW q \in Procs, q # p, HasRun(q),
           Begins(p) \/ Enters(p) \/ Leaves(p) \/ (Within(p) /\ Steps(p))
    PROVE  HasRun(q)'
<1>1. pc'[q] = pc[q] /\ mem'[q] = mem[q]
  BY Zenon DEF Begins, Enters, Leaves, Within, Alone
<1>2. ASSUME pc[q] \in Locked PROVE runs' = runs
  <2>1. ~Creates(p)
    BY Zenon, <1>1, <1>2, HolderExcludes DEF Creates, Move, Locked
  <2>2. QED
    BY Zenon, <2>1, TameStep
<1>3. QED
  BY Zenon, <1>1, <1>2 DEF HasRun, Locked

\* Whatever happens, unless an exit file comes late.
LEMMA NextRun ==
    ASSUME ~LateExitFile
    PROVE  /\ TypeOK /\ LockHeld /\ LockHeld' /\ CopyIsCurrent /\ PlaceInv /\ RunInv
           /\ [Next]_vars
           => RunInv'
<1> SUFFICES ASSUME TypeOK, LockHeld, LockHeld', CopyIsCurrent, PlaceInv, RunInv, [Next]_vars
             PROVE  RunInv'
  BY Zenon
<1>1. CASE Quiet
  BY Zenon, <1>1 DEF Quiet, KeepsRows, KeepsWorld, RunInv, OneRun, RowRun, HasRun, Live
<1>2. CASE Outside
  <2>1. OneRun' /\ (Live' => Live) /\ UNCHANGED <<runs, pc, mem, db>>
    BY Zenon, <1>2, OutsideOneRun DEF RunInv, Outside, KeepsRows
  <2>2. QED
    BY Zenon, <2>1 DEF RunInv, RowRun, HasRun
<1>3. ASSUME NEW p \in Procs, Begins(p) \/ Enters(p) \/ Leaves(p) \/ (Within(p) /\ Steps(p))
      PROVE  RunInv'
  <2>1. OneRun /\ RowRun /\ HasRun(p) /\ InPlace(p)
    BY Zenon DEF RunInv, PlaceInv
  <2>2. OneRun' /\ RowRun' /\ HasRun(p)'
    BY Zenon, <1>3, <2>1, StepOneRun, StepRowRun
  <2>3. ASSUME NEW q \in Procs PROVE HasRun(q)'
    BY Zenon, <1>3, <2>2, OthersHaveRun DEF RunInv
  <2>4. QED
    BY Zenon, <2>2, <2>3 DEF RunInv
<1>4. QED
  BY Zenon, <1>1, <1>2, <1>3, NextDoes

\* At first there is no run.
LEMMA InitRun == Init => RunInv
  BY DEF Init, RunInv, OneRun, RowRun, HasRun, NoOci, NoFile, Blank, MayRun, Live

\* Conmon's exit file carries the container's name, not the run's: still, whenever
\* podman would take it for the exit of a container it believes running, it is of
\* that very run, provided the conmon of a run has reported before the next run is
\* created (checkExitFile, init, removeConmonFiles).
THEOREM ExitFileIsOfThisRun == ASSUME ~LateExitFile PROVE Spec => []ExitFileOfThisRun
<1>1. RunInv => ExitFileOfThisRun
  BY Zenon DEF RunInv, OneRun, RowRun, MayRun, ExitFileOfThisRun
<1>2. QED
  BY <1>1, InitTypeOK, NextTypeOK, NextLockHeld, NextIsCurrent, InitPlaces, NextPlaces,
     InitRun, NextRun, PTL DEF Spec
=============================================================================
