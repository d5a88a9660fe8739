-------------------------- MODULE Lifecycle_proofs --------------------------
(***************************************************************************)
(* What users are promised of a container whatever the processes that work *)
(* on it do: what is removed is gone, what runs is tracked, what is        *)
(* stopped stays stopped, and who waits for it finds its exit code.        *)
(***************************************************************************)
EXTENDS Container_proofs

-----------------------------------------------------------------------------
(* What is removed is gone *)

Absent == oci.st = "absent"

\* A removal goes on to the database only after the container is deleted in the
\* runtime, and not at all if it may be running.
Gone(p) ==
    /\ pc[p] # "exec_lock"
    /\ pc[p] \in {"cl_storage"} \cup RemovalPath /\ cmd[p] \in Removers /\ ~err[p] => Absent
    /\ pc[p] \in CleanupPath \cup RemovalPath /\ cmd[p] \in Removers /\ ~err[p]
         => mem[p].State \notin MayRun

\* What the runtime has is in the row, or is about to be.
InRow == \/ Absent \/ db.State \in {"Created", "Stopped"} \cup MayRun
         \/ \E p \in Procs : pc[p] = "save_created"

GoneInv == Forced \notin begun => /\ InRow /\ (~exists => Absent)
                                  /\ \A p \in Procs : Gone(p)

\* One step of a process.
LEMMA StepGone ==
    ASSUME TypeOK, LockHeld, LockHeld', CopyIsCurrent, ~ExecBusy, NEW p \in Procs, InPlace(p),
           Forced \notin begun, InRow, ~exists => Absent, Gone(p),
           Begins(p) \/ Enters(p) \/ Leaves(p) \/ (Within(p) /\ Steps(p))
    PROVE  Gone(p)' /\ InRow' /\ (~exists' => Absent')
<1>0. /\ pc[p] \in Locked /\ valid[p] /\ pc[p] \notin {"save", "save_created", "conmon"}
           => mem[p] = db
      /\ Present(p) /\ Shape(p) /\ Task(p)
      /\ pc[p] # "rm_check"
  BY Zenon, HolderHasRow, CommandSets DEF InPlace, Task
<1>a. ASSUME NEW q \in Procs, pc[q] = "save_created", q # p
      PROVE  pc'[q] = "save_created" /\ pc[p] \notin Locked /\ pc'[p] \notin Locked
  <2>1. pc'[q] = pc[q]
    BY Zenon, <1>a DEF Begins, Enters, Leaves, Within, Alone
  <2>2. QED
    BY Zenon, <1>a, <2>1, HolderExcludes DEF Locked
\* A step that keeps the state in the row, or brings it to one that fits.
<1>b. ASSUME ~Absent' => ~Absent, pc[p] = "save_created" => pc'[p] = "save_created",
             db'.State \in {db.State, "Created", "Stopped"} \cup MayRun
      PROVE  InRow'
  <2>1. CASE ~Absent' /\ db.State \notin {"Created", "Stopped"} \cup MayRun
    <3>1. PICK q \in Procs : pc[q] = "save_created"
      BY Zenon, <1>b, <2>1 DEF InRow
    <3>2. pc'[q] = "save_created"
      BY Zenon, <1>a, <1>b, <3>1
    <3>3. QED
      BY Zenon, <3>2 DEF InRow
  <2>2. CASE ~(~Absent' /\ db.State \notin {"Created", "Stopped"} \cup MayRun)
    BY Zenon, <1>b, <2>2 DEF InRow
  <2>3. QED
    BY Zenon, <2>1, <2>2
<1>c. ASSUME pc[p] \in Locked \ {"save_created"}, db.State \notin {"Created", "Stopped"} \cup MayRun
      PROVE  Absent
  BY Zenon, <1>a, <1>c DEF InRow, Locked
<1>d. ~Creates(p) => (~Absent' => ~Absent)
  BY Zenon, TameStep DEF Absent
<1> USE DEF CleanupPath, RemovalPath, KeepsRows, Move, FailTo
<1>1. CASE Begins(p) \/ Leaves(p)
  <2>1. /\ UNCHANGED <<db, exists, oci>> /\ pc'[p] \in {"idle", "lock"}
        /\ pc[p] # "save_created"
    BY Zenon, <1>1 DEF Begins, Leaves, KeepsWorld, Inhibited
  <2>2. QED
    BY Zenon, <1>b, <2>1 DEF Gone, Absent
<1>2. CASE Enters(p)
  <2>1. /\ UNCHANGED <<oci, exists>> /\ pc'[p] \in {"body", "stop_check", "wait_result"}
        /\ pc[p] # "save_created"
    BY Zenon, <1>2 DEF Enters, KeepsWorld, Gone
  <2>2. db'.State \in {db.State, "Stopped"}
    BY Zenon, <1>2 DEF Enters
  <2>3. QED
    BY Zenon, <1>b, <2>1, <2>2 DEF Gone, Absent
<1>3. CASE Within(p) /\ Steps(p)
  <2>0. UNCHANGED cmd
    BY Zenon, <1>3 DEF Within
  <2>1. CASE Strolls(p)
    <3>1. UNCHANGED <<db, exists, oci>> /\ pc'[p] # "save_created" /\ pc[p] # "save_created"
      BY Zenon, <2>1 DEF Strolls, KeepsWorld
    <3>2. ASSUME Move(p, "cl_runtime", "cl_storage"), cmd[p] \in Removers, ~err[p]
          PROVE  Absent
      <4>1. CASE valid[p]
        <5>1. mem[p] = db /\ db.State \notin {"Created", "Stopped"} \cup MayRun
          BY Zenon, <1>0, <2>1, <3>2, <4>1 DEF Strolls, Gone, Locked
        <5>2. QED
          BY Zenon, <1>c, <3>2, <5>1 DEF Locked
      <4>2. CASE ~valid[p]
        BY Zenon, <1>0, <3>2, <4>2 DEF Present, Locked
      <4>3. QED
        BY Zenon, <4>1, <4>2
    <3>3. Gone(p)'
      BY Zenon, <1>0, <2>0, <2>1, <3>1, <3>2 DEF Strolls, Gone, Absent, MayRun
    <3>4. QED
      BY Zenon, <1>b, <3>1, <3>3 DEF Absent
  <2>2. CASE ChecksStop(p)
    <3>1. /\ UNCHANGED <<db, exists, oci>> /\ pc[p] # "save_created"
          /\ pc'[p] \in {"done", "conmon", "restart_net", "rm_check"}
      BY Zenon, <2>2 DEF ChecksStop, KeepsWorld
    <3>2. QED
      BY Zenon, <1>b, <3>1 DEF Gone, Absent
  <2>3. CASE Resaves(p)
    <3>1. /\ UNCHANGED <<exists, oci>> /\ pc[p] # "save_created"
          /\ mem'[p].State = mem[p].State
      BY Zenon, <2>3 DEF Resaves, KeepsWorld, SameCopy, Copy
    <3>2. db'.State = db.State
      BY Zenon, <1>0, <2>3, <3>1 DEF Resaves, Saved, Locked
    <3>3. Gone(p)'
      BY Zenon, <2>0, <2>3, <3>1 DEF Resaves, Gone, Absent
    <3>4. QED
      BY Zenon, <1>b, <3>1, <3>2, <3>3 DEF Absent
  <2>4. CASE Deletes(p)
    <3>1. oci'.st = "absent" /\ mem'[p].State \in {"Exited", "Configured"}
      BY Zenon, <2>4 DEF Deletes, Copy, NoOci
    <3>2. pc'[p] # "exec_lock"
      BY Zenon, <2>4 DEF Deletes
    <3>3. QED
      BY Zenon, <3>1, <3>2 DEF Gone, Absent, InRow, MayRun
  <2>5. CASE Creates(p)
    <3>1. exists
      BY Zenon, <1>0, <2>5 DEF Creates, Present, Locked
    <3>2. QED
      BY Zenon, <2>5, <3>1 DEF Creates, Gone, InRow
  <2>6. CASE CreateFails(p)
    <3>1. /\ ~Creates(p) /\ UNCHANGED <<db, exists>>
          /\ pc[p] # "save_created" /\ (pc'[p] = "done" \/ (pc'[p] = "cl_net" /\ err'[p]))
      BY Zenon, <2>6 DEF CreateFails, Creates
    <3>2. QED
      BY Zenon, <1>b, <1>d, <3>1 DEF Gone
  <2>7. CASE Created(p)
    <3>1. db'.State = "Created" /\ UNCHANGED <<exists, oci>> /\ pc'[p] \in {"start", "done"}
      BY Zenon, <1>0, <2>7 DEF Created, Saved, Copy, KeepsWorld, Present
    <3>2. QED
      BY Zenon, <3>1 DEF Gone, InRow, Absent
  <2>8. CASE Starts(p)
    <3>1. ~Creates(p) /\ UNCHANGED <<db, exists>> /\ pc'[p] = "save" /\ pc[p] # "save_created"
      BY Zenon, <2>8 DEF Starts, Creates
    <3>2. QED
      BY Zenon, <1>b, <1>d, <3>1 DEF Gone
  <2>9. CASE SavesState(p)
    <3>1. /\ pc'[p] \in {"done", "exitwait"} /\ pc[p] # "save_created" /\ UNCHANGED <<exists, oci>>
      BY Zenon, <2>9 DEF SavesState, KeepsWorld
    <3>2. db'.State \in MayRun
      BY Zenon, <1>0, <2>9 DEF SavesState, Saved, Present, Shape
    <3>3. QED
      BY Zenon, <1>b, <3>1, <3>2 DEF Gone, Absent
  <2>10. CASE Signals(p)
    <3>1. /\ ~Creates(p) /\ UNCHANGED <<db, exists>>
          /\ pc'[p] \in {"save", "conmon", "exitwait"} /\ pc[p] # "save_created"
      BY Zenon, <2>10 DEF Signals, Creates
    <3>2. QED
      BY Zenon, <1>b, <1>d, <3>1 DEF Gone
  <2>11. CASE Stops(p)
    <3>1. mem[p] = db /\ db' = mem'[p]
      BY Zenon, <1>0, <2>11 DEF Stops, Saved, Locked
    <3>2. /\ db'.State \in {"Stopping", db.State} /\ UNCHANGED <<exists, oci>>
          /\ pc'[p] \in {"stop_ping", "done"} /\ pc[p] # "save_created"
      BY Zenon, <2>11, <3>1 DEF Stops, Copy, KeepsWorld
    <3>3. QED
      BY Zenon, <1>b, <3>2 DEF Gone, MayRun, Absent
  <2>12. CASE StopKills(p)
    <3>1. ~Creates(p) /\ UNCHANGED <<db, exists>> /\ pc'[p] = "stop_lock" /\ pc[p] # "save_created"
      BY Zenon, <2>12 DEF StopKills, Creates
    <3>2. QED
      BY Zenon, <1>b, <1>d, <3>1 DEF Gone
  <2>13. CASE ReadsExit(p)
    <3>1. /\ pc'[p] \in {"done", "restart_net", "rm_check"} /\ pc[p] # "save_created"
          /\ UNCHANGED <<exists, oci>>
      BY Zenon, <2>13 DEF ReadsExit, KeepsWorld
    <3>2. db'.State \in {"Stopped"} \cup MayRun
      BY Zenon, <1>0, <2>13 DEF ReadsExit, Saved, Present, Shape, Copy
    <3>3. QED
      BY Zenon, <1>b, <3>1, <3>2 DEF Gone, Absent
  <2>14. CASE DiesEarly(p)
    <3>1. /\ ~Creates(p) /\ UNCHANGED exists /\ err'[p]
          /\ pc'[p] = "cl_net" /\ pc[p] # "save_created" /\ db'.State = "Stopped"
      BY Zenon, <1>0, <2>14 DEF DiesEarly, Creates, Saved, Copy, Present
    <3>2. QED
      BY Zenon, <1>b, <1>d, <3>1 DEF Gone
  <2>15. CASE TimesOut(p)
    <3>1. /\ pc'[p] = "done" /\ pc[p] # "save_created" /\ UNCHANGED <<exists, oci>>
          /\ db'.State = "Stopped"
      BY Zenon, <1>0, <2>15 DEF TimesOut, Saved, Copy, Present, KeepsWorld
    <3>2. QED
      BY Zenon, <1>b, <3>1 DEF Gone, Absent
  <2>16. CASE Marks(p)
    <3>1. Absent /\ UNCHANGED <<exists, oci>>
      BY Zenon, <1>0, <2>16 DEF Marks, KeepsWorld, Task, Gone
    <3>2. mem'[p].State = "Removing" /\ pc'[p] = "rm_storage"
      BY Zenon, <2>16 DEF Marks, Copy
    <3>3. QED
      BY Zenon, <3>1, <3>2 DEF Gone, Absent, InRow, MayRun
  <2>17. CASE Removes(p)
    <3>1. UNCHANGED <<db, oci>> /\ pc'[p] \in {"rm_free", "done"} /\ pc[p] # "save_created"
      BY Zenon, <2>17 DEF Removes, KeepsWorld
    <3>2. ~exists' => Absent
      BY <1>0, <2>17 DEF Removes, Task, Gone
    <3>3. QED
      BY Zenon, <1>b, <3>1, <3>2 DEF Gone, Absent
  <2>18. QED
    BY Zenon, <1>3, <2>1, <2>2, <2>3, <2>4, <2>5, <2>6, <2>7, <2>8, <2>9, <2>10, <2>11,
       <2>12, <2>13, <2>14, <2>15, <2>16, <2>17 DEF Steps
<1>4. QED
  BY Zenon, <1>1, <1>2, <1>3

\* The other processes.
LEMMA OthersGone ==
    ASSUME TypeOK, LockHeld, LockHeld', NEW p \in Procs, NEW q \in Procs, q # p, Gone(q),
           Begins(p) \/ Enters(p) \/ Leaves(p) \/ (Within(p) /\ Steps(p))
    PROVE  Gone(q)'
<1>1. pc'[q] = pc[q] /\ mem'[q] = mem[q] /\ cmd'[q] = cmd[q] /\ err'[q] = err[q]
  BY Zenon DEF Begins, Enters, Leaves, Within, Alone
<1>2. ASSUME pc[q] \in Locked PROVE Absent => Absent'
  <2>1. ~Creates(p)
    BY Zenon, <1>1, <1>2, HolderExcludes DEF Creates, Move, Locked
  <2>2. QED
    BY Zenon, <2>1, TameStep DEF Absent
<1>3. QED
  BY Zenon, <1>1, <1>2 DEF Gone, Locked, RemovalPath

\* Whatever happens, as long as no removal by force has begun.
LEMMA NextGone ==
    ASSUME ~ExecBusy
    PROVE  /\ TypeOK /\ LockHeld /\ LockHeld' /\ CopyIsCurrent /\ PlaceInv /\ GoneInv
           /\ [Next]_vars
           => GoneInv'
<1> SUFFICES ASSUME TypeOK, LockHeld, LockHeld', CopyIsCurrent, PlaceInv, GoneInv, [Next]_vars,
                    Forced \notin begun'
             PROVE  GoneInv'
  BY Zenon DEF GoneInv
<1>1. CASE Outside \/ Quiet
  <2>1. UNCHANGED <<pc, mem, cmd, err, begun, db, exists>>
    BY Zenon, <1>1 DEF Outside, Quiet, KeepsRows
  <2>2. Absent => Absent'
    <3>1. UNCHANGED oci \/ Live
      BY Zenon, <1>1 DEF Outside, Quiet, KeepsWorld
    <3>2. QED
      BY Zenon, <3>1 DEF Absent, Live
  <2>3. Absent' => Absent
    <3>1. UNCHANGED oci \/ oci' = DeadOci
      BY Zenon, <1>1 DEF Outside, Quiet, KeepsWorld
    <3>2. DeadOci.st = "stopped"
      BY Zenon DEF DeadOci, TypeOK, OciType
    <3>3. QED
      BY Zenon, <3>1, <3>2 DEF Absent
  <2>4. QED
    BY Zenon, <2>1, <2>2, <2>3 DEF GoneInv, Gone, InRow
<1>2. ASSUME NEW p \in Procs, Begins(p) \/ Enters(p) \/ Leaves(p) \/ (Within(p) /\ Steps(p))
      PROVE  GoneInv'
  <2>1. Forced \notin begun
    BY Zenon, <1>2 DEF Begins, Enters, Leaves, Within
  <2>2. Gone(p)' /\ InRow' /\ (~exists' => Absent')
    BY Zenon, <1>2, <2>1, StepGone DEF GoneInv, PlaceInv
  <2>3. ASSUME NEW q \in Procs PROVE Gone(q)'
    BY Zenon, <1>2, <2>1, <2>2, OthersGone DEF GoneInv
  <2>4. QED
    BY Zenon, <2>2, <2>3 DEF GoneInv
<1>3. QED
  BY Zenon, <1>1, <1>2, NextDoes

\* At first the runtime has nothing.
LEMMA InitGone == Init => GoneInv
  BY DEF Init, GoneInv, Gone, InRow, Absent, NoOci, CleanupPath, RemovalPath

\* Once a container is removed, unless by force, the runtime has nothing left of it:
\* no start, restart by policy or second removal brings it back between the checks
\* of removeContainer and the deletion of the row, as long as no exec bundle is busy.
THEOREM NothingIsLeft == ASSUME ~ExecBusy PROVE Spec => []RemovedIsGone
<1>1. GoneInv => RemovedIsGone
  BY Zenon DEF GoneInv, RemovedIsGone, Absent, Forced
<1>2. QED
  BY <1>1, InitTypeOK, NextTypeOK, NextLockHeld, NextIsCurrent, InitPlaces, NextPlaces,
     InitGone, NextGone, PTL DEF Spec

\* podman does not lose track of what the runtime runs: the row holds its PID, or the
\* process that created it, which shutdown signals cannot end there, is about to save
\* it; and only a forced removal leaves it without a row.
THEOREM RunsAreTracked == ASSUME ~LateExitFile, ~ExecBusy PROVE Spec => []RunIsTracked
<1>1. RunInv /\ GoneInv => RunIsTracked
  <2> SUFFICES ASSUME RunInv, GoneInv, Live PROVE RunIsTracked
    BY Zenon DEF RunIsTracked
  <2>1. oci.run = runs
    BY Zenon DEF RunInv, OneRun, Live
  <2>2. exists \/ Forced \in begun
    BY Zenon DEF GoneInv, Absent, Live
  <2>3. CASE db.PID = runs
    BY Zenon, <2>1, <2>2, <2>3 DEF RunIsTracked, Forced
  <2>4. CASE \E p \in Procs : pc[p] = "save_created"
    <3>1. PICK p \in Procs : pc[p] = "save_created"
      BY Zenon, <2>4
    <3>2. mem[p].PID = oci.run
      BY Zenon, <2>1, <3>1 DEF RunInv, HasRun
    <3>3. QED
      BY Zenon, <3>1, <3>2 DEF RunIsTracked
  <2>5. QED
    BY Zenon, <2>3, <2>4 DEF RunInv, RowRun
<1>2. QED
  BY <1>1, InitTypeOK, NextTypeOK, NextLockHeld, NextIsCurrent, InitPlaces, NextPlaces,
     InitRun, NextRun, InitGone, NextGone, PTL DEF Spec

-----------------------------------------------------------------------------
(* A stop sticks *)

\* A conmon watches whatever lives.
Watched == Live => runs \in Runs /\ conmon[runs] = "monitoring"

\* Conmon monitors until its run is dead, unless it is killed.
LEMMA NextWatched ==
    ASSUME ~ConmonMayDie
    PROVE  /\ TypeOK /\ LockHeld /\ CopyIsCurrent /\ RunInv /\ Watched /\ [Next]_vars
           => Watched'
<1> SUFFICES ASSUME TypeOK, LockHeld, CopyIsCurrent, OneRun, Watched, [Next]_vars
             PROVE  Watched'
  BY Zenon DEF RunInv
<1>0. /\ conmon \in [Runs -> {"none", "monitoring", "exiting", "gone"}]
      /\ runs \in 0 .. MaxRuns
  BY Zenon DEF TypeOK
<1>1. CASE Quiet
  BY Zenon, <1>1 DEF Quiet, KeepsWorld, Watched, Live
<1>2. CASE Outside
  <2>1. (Live' => Live) /\ UNCHANGED runs
    BY Zenon, <1>2, OutsideOneRun
  <2>2. CASE UNCHANGED conmon
    BY Zenon, <2>1, <2>2 DEF Watched
  <2>3. ASSUME NEW r \in Runs, conmon[r] = "monitoring", ~Alive(r), UNCHANGED oci,
               conmon' = [conmon EXCEPT ![r] = "exiting"]
        PROVE  Watched'
    BY Zenon, <2>1, <2>3 DEF OneRun, Watched, Alive, Live
  <2>4. ASSUME NEW r \in Runs, conmon[r] = "exiting", conmon' = [conmon EXCEPT ![r] = "gone"]
        PROVE  Watched'
    BY Zenon, <1>0, <2>1, <2>4 DEF Watched
  <2>5. QED
    BY Zenon, <1>2, <2>2, <2>3, <2>4 DEF Outside
<1>3. ASSUME NEW p \in Procs, Begins(p) \/ Enters(p) \/ Leaves(p) \/ (Within(p) /\ Steps(p))
      PROVE  Watched'
  <2>1. CASE Creates(p)
    BY <1>0, <2>1, ContainerAssumption DEF Creates, Watched, Runs
  <2>2. CASE ~Creates(p)
    BY Zenon, <1>3, <2>2, TameStep DEF Watched
  <2>3. QED
    BY Zenon, <2>1, <2>2
<1>4. QED
  BY Zenon, <1>1, <1>2, <1>3, NextDoes

\* What lives is not called stopped, unless it was created just now.
Calm(s) == s.State \in {"Configured", "Exited", "Stopped"}
RowKnows == Calm(db) /\ Live => \E p \in Procs : pc[p] = "save_created"

\* A step of a process does not bring the row to rest while a run lives.
LEMMA StepRowKnows ==
    ASSUME TypeOK, LockHeld, LockHeld', CopyIsCurrent, ~LateExitFile, NEW p \in Procs,
           InPlace(p), OneRun, HasRun(p), RowRun, Watched, RowKnows,
           Begins(p) \/ Enters(p) \/ Leaves(p) \/ (Within(p) /\ Steps(p))
    PROVE  RowKnows'
<1>0. /\ pc[p] \in Locked /\ valid[p] /\ pc[p] \notin {"save", "save_created", "conmon"}
           => mem[p] = db
      /\ Present(p) /\ Shape(p)
  BY Zenon, HolderHasRow DEF InPlace
\* A step that does not bring the row to rest.
<1>a. ASSUME Live' => Live, pc[p] = "save_created" => pc'[p] = "save_created",
             Calm(db') => Calm(db)
      PROVE  RowKnows'
  <2>1. CASE Live' /\ Calm(db')
    <3>1. PICK q \in Procs : pc[q] = "save_created"
      BY Zenon, <1>a, <2>1 DEF RowKnows
    <3>2. q # p => pc'[q] = pc[q]
      BY Zenon DEF Begins, Enters, Leaves, Within, Alone
    <3>3. pc'[q] = "save_created"
      BY Zenon, <1>a, <3>1, <3>2
    <3>4. QED
      BY Zenon, <3>3 DEF RowKnows
  <2>2. CASE ~(Live' /\ Calm(db'))
    BY Zenon, <2>2 DEF RowKnows
  <2>3. QED
    BY Zenon, <2>1, <2>2
<1>b. ~Live' => RowKnows'
  BY Zenon DEF RowKnows
<1>c. ~Creates(p) => (Live' => Live)
  BY Zenon, TameStep
<1> USE DEF KeepsRows, Move, FailTo
<1>1. CASE Begins(p) \/ Leaves(p)
  <2>1. /\ UNCHANGED <<db, oci>> /\ pc[p] # "save_created"
    BY Zenon, <1>1 DEF Begins, Leaves, KeepsWorld, Inhibited
  <2>2. QED
    BY Zenon, <1>a, <2>1 DEF Live
<1>2. CASE Enters(p)
  <2>1. UNCHANGED oci /\ pc[p] # "save_created"
    BY Zenon, <1>2 DEF Enters, KeepsWorld
  <2>2. CASE exists /\ valid[p] /\ SeesExit(db)
    BY Zenon, <1>b, <2>1, <2>2 DEF SeesExit, OneRun, Live
  <2>3. CASE ~(exists /\ valid[p] /\ SeesExit(db))
    <3>1. db'.State = db.State
      BY Zenon, <1>2, <2>3 DEF Enters
    <3>2. QED
      BY Zenon, <1>a, <2>1, <3>1 DEF Live, Calm
  <2>4. QED
    BY Zenon, <2>2, <2>3
<1>3. CASE Within(p) /\ Steps(p)
  <2>1. CASE Strolls(p) \/ ChecksStop(p)
    <3>1. UNCHANGED <<db, oci>> /\ pc[p] # "save_created"
      BY Zenon, <2>1 DEF Strolls, ChecksStop, KeepsWorld
    <3>2. QED
      BY Zenon, <1>a, <3>1 DEF Live
  <2>2. CASE Resaves(p)
    <3>1. db'.State = db.State
      BY Zenon, <1>0, <2>2 DEF Resaves, Saved, SameCopy, Copy, Locked
    <3>2. UNCHANGED oci /\ pc[p] # "save_created"
      BY Zenon, <2>2 DEF Resaves, KeepsWorld
    <3>3. QED
      BY Zenon, <1>a, <3>1, <3>2 DEF Live, Calm
  <2>3. CASE Deletes(p)
    <3>1. oci'.st = "absent"
      BY Zenon, <2>3 DEF Deletes, NoOci
    <3>2. QED
      BY Zenon, <1>b, <3>1 DEF Live
  <2>4. CASE Creates(p)
    BY Zenon, <2>4 DEF Creates, RowKnows
  <2>5. CASE CreateFails(p) \/ Starts(p) \/ Signals(p) \/ StopKills(p)
    <3>1. ~Creates(p) /\ UNCHANGED db /\ pc[p] # "save_created"
      BY Zenon, <2>5 DEF CreateFails, Starts, Signals, StopKills, Creates
    <3>2. QED
      BY Zenon, <1>a, <1>c, <3>1
  <2>6. CASE Created(p)
    <3>1. db'.State = "Created"
      BY Zenon, <1>0, <2>6 DEF Created, Saved, Copy, Present
    <3>2. QED
      BY Zenon, <3>1 DEF RowKnows, Calm
  <2>7. CASE SavesState(p)
    <3>1. db'.State \in MayRun
      BY Zenon, <1>0, <2>7 DEF SavesState, Saved, Present, Shape
    <3>2. QED
      BY Zenon, <3>1 DEF RowKnows, Calm, MayRun
  <2>8. CASE Stops(p)
    <3>1. mem[p] = db /\ db' = mem'[p]
      BY Zenon, <1>0, <2>8 DEF Stops, Saved, Locked
    <3>2. db'.State \in {"Stopping", db.State} /\ UNCHANGED oci /\ pc[p] # "save_created"
      BY Zenon, <2>8, <3>1 DEF Stops, Copy, KeepsWorld
    <3>3. QED
      BY Zenon, <1>a, <3>2 DEF Calm, Live
  <2>9. CASE ReadsExit(p)
    <3>1. UNCHANGED oci
      BY Zenon, <2>9 DEF ReadsExit, KeepsWorld
    <3>2. CASE SeesExit(mem[p])
      BY Zenon, <1>b, <3>1, <3>2 DEF SeesExit, OneRun, Live
    <3>3. CASE ~SeesExit(mem[p])
      <4>1. db'.State \in MayRun
        BY Zenon, <1>0, <2>9, <3>3 DEF ReadsExit, Saved, Present, Shape
      <4>2. QED
        BY Zenon, <4>1 DEF RowKnows, Calm, MayRun
    <3>4. QED
      BY Zenon, <3>2, <3>3
  <2>10. CASE DiesEarly(p)
    <3>1. mem[p].PID = runs
      BY Zenon, <2>10 DEF DiesEarly, HasRun
    <3>2. DeadOci.st = "stopped"
      BY Zenon DEF DeadOci, TypeOK, OciType
    <3>3. ~Live'
      BY Zenon, <2>10, <3>1, <3>2 DEF DiesEarly, Alive, Live, OneRun
    <3>4. QED
      BY Zenon, <1>b, <3>3
  <2>11. CASE TimesOut(p)
    <3>1. mem[p] = db /\ mem[p].State \in MayRun /\ UNCHANGED oci /\ ~ConmonRunning(mem[p])
      BY Zenon, <1>0, <2>11 DEF TimesOut, Present, Shape, Locked, KeepsWorld
    <3>2. mem[p].PID = runs
      BY Zenon, <3>1 DEF RowRun
    <3>3. ~Live
      BY <3>1, <3>2, ContainerAssumption DEF ConmonRunning, Watched, Runs
    <3>4. QED
      BY Zenon, <1>b, <3>1, <3>3 DEF Live
  <2>12. CASE Marks(p)
    <3>1. db'.State \in {"Removing", db.State} /\ UNCHANGED oci /\ pc[p] # "save_created"
      BY Zenon, <2>12 DEF Marks, Saved, Copy, KeepsWorld
    <3>2. QED
      BY Zenon, <1>a, <3>1 DEF Calm, Live
  <2>13. CASE Removes(p)
    <3>1. UNCHANGED <<db, oci>> /\ pc[p] # "save_created"
      BY Zenon, <2>13 DEF Removes, KeepsWorld
    <3>2. QED
      BY Zenon, <1>a, <3>1 DEF Live
  <2>14. QED
    BY Zenon, <1>3, <2>1, <2>2, <2>3, <2>4, <2>5, <2>6, <2>7, <2>8, <2>9, <2>10, <2>11,
       <2>12, <2>13 DEF Steps
<1>4. QED
  BY Zenon, <1>1, <1>2, <1>3

\* The row tells the restart policy to leave the container alone, and no process is
\* bringing it up.
Reviving == {"restart_net", "prepare", "reinit", "create", "save_created", "start"}
Held == /\ exists => db.StoppedByUser
        /\ \A q \in Procs : pc[q] \notin Reviving

\* Only a command that starts the container ends that.
LEMMA StepHeld ==
    ASSUME TypeOK, LockHeld, CopyIsCurrent, ~HealthRestart, NEW p \in Procs, InPlace(p),
           Held, cmd[p] \notin Starters,
           Begins(p) \/ Enters(p) \/ Leaves(p) \/ (Within(p) /\ Steps(p))
    PROVE  Held' /\ ~Creates(p)
<1>0. /\ pc[p] \in Locked /\ valid[p] /\ pc[p] \notin {"save", "save_created", "conmon"}
           => mem[p] = db
      /\ Present(p) /\ Shape(p) /\ cmd[p] # "restart"
  BY Zenon, HolderHasRow DEF InPlace, Starters
<1>1. pc[p] \notin Reviving /\ (exists => db.StoppedByUser)
  BY Zenon DEF Held
<1>2. ~Creates(p)
  BY Zenon, <1>1 DEF Creates, Move, Reviving
<1>3. pc'[p] \notin Reviving
  <2> USE DEF Reviving, Move, FailTo
  <2>1. CASE Begins(p) \/ Enters(p) \/ Leaves(p)
    BY Zenon, <2>1 DEF Begins, Enters, Leaves
  <2>2. CASE Strolls(p)
    BY Zenon, <1>1, <2>2 DEF Strolls
  <2>3. CASE Resaves(p)
    <3>1. ASSUME Move(p, "body", "restart_net"), valid[p], shouldRestart(mem[p])
          PROVE  FALSE
      <4>1. mem[p] = db /\ exists
        BY Zenon, <1>0, <3>1 DEF Present, Locked
      <4>2. QED
        BY Zenon, <1>1, <3>1, <4>1 DEF shouldRestart
    <3>2. QED
      BY Zenon, <1>1, <2>3, <3>1 DEF Resaves
  <2>4. CASE ChecksStop(p) \/ ReadsExit(p)
    BY Zenon, <1>0, <2>4 DEF ChecksStop, ReadsExit
  <2>5. CASE /\ Steps(p)
             /\ ~(Strolls(p) \/ Resaves(p) \/ ChecksStop(p) \/ ReadsExit(p))
    BY Zenon, <1>1, <2>5 DEF Steps, Deletes, Creates, CreateFails, Created, Starts, SavesState,
       Signals, Stops, StopKills, DiesEarly, TimesOut, Marks, Removes
  <2>6. QED
    BY Zenon, <2>1, <2>2, <2>3, <2>4, <2>5
<1>4. exists' => db'.StoppedByUser
  <2> SUFFICES ASSUME exists' PROVE db'.StoppedByUser
    BY Zenon
  <2> USE DEF Move, FailTo, KeepsRows
  <2>0. exists /\ db.StoppedByUser
    BY Zenon, <1>1 DEF Begins, Enters, Leaves, Steps, Strolls, ChecksStop, Resaves, Deletes, Creates,
       CreateFails, Created, Starts, SavesState, Signals, Stops, StopKills, ReadsExit,
       DiesEarly, TimesOut, Marks, Removes
  <2>1. CASE Begins(p) \/ Enters(p) \/ Leaves(p)
    BY Zenon, <2>0, <2>1 DEF Begins, Enters, Leaves
  <2>2. CASE UNCHANGED db
    BY Zenon, <2>0, <2>2
  <2>3. CASE Resaves(p) \/ Deletes(p)
    BY Zenon, <1>0, <2>0, <2>3 DEF Resaves, Deletes, Saved, SameCopy, Copy, Locked
  <2>4. CASE SavesState(p)
    BY Zenon, <1>0, <2>0, <2>4 DEF SavesState, Saved, Shape
  <2>5. CASE Stops(p)
    BY Zenon, <2>0, <2>5 DEF Stops, Saved, Copy
  <2>6. CASE ReadsExit(p)
    BY Zenon, <1>0, <2>0, <2>6 DEF ReadsExit, Saved, Copy, Shape, Locked
  <2>7. CASE DiesEarly(p)
    BY Zenon, <1>0, <2>0, <2>7 DEF DiesEarly, Saved, Copy, Shape
  <2>8. CASE TimesOut(p) \/ Marks(p)
    BY Zenon, <1>0, <2>0, <2>8 DEF TimesOut, Marks, Saved, Copy, Locked
  <2>9. ~Created(p)
    BY Zenon, <1>1 DEF Created, Reviving
  <2>10. QED
    BY Zenon, <2>1, <2>2, <2>3, <2>4, <2>5, <2>6, <2>7, <2>8, <2>9 DEF Steps, Strolls,
       ChecksStop, Creates, CreateFails, Starts, Signals, StopKills, Removes
<1>5. ASSUME NEW q \in Procs, q # p PROVE pc'[q] \notin Reviving
  <2>1. pc'[q] = pc[q]
    BY Zenon, <1>5 DEF Begins, Enters, Leaves, Within, Alone
  <2>2. QED
    BY Zenon, <2>1 DEF Held
<1>6. QED
  BY Zenon, <1>2, <1>3, <1>4, <1>5 DEF Held

\* Where "podman stop" goes unless it fails.
StopPath(p) ==
    cmd[p] = "stop" /\ ~err[p] =>
      pc[p] \in {"lock", "body", "stop_ping", "stop_kill", "stop_lock", "stop_check", "conmon",
                 "exitwait", "done"}

\* How far the stop that is the users' last wish has come: nothing revives the
\* container any more; it signals the run that lives; that run is dead.
Stopped(p) ==
    intent = p /\ cmd[p] = "stop" /\ ~err[p] =>
      /\ pc[p] \notin {"lock", "body"} => Held
      /\ pc[p] \in {"stop_ping", "stop_kill"} /\ Live => oci.run = mem[p].PID
      /\ pc[p] \in {"stop_lock", "stop_check", "conmon", "exitwait", "done"} => ~Live

StopInv ==
    /\ intent # "none" => \A q \in Procs : cmd[q] \notin Starters
    /\ intent = "stopped" => Held /\ ~Live
    /\ \A p \in Procs : StopPath(p) /\ Stopped(p)

\* The path, for any step.
LEMMA StepStopPath ==
    ASSUME TypeOK, NEW p \in Procs, Task(p), StopPath(p),
           Begins(p) \/ Enters(p) \/ Leaves(p) \/ (Within(p) /\ Steps(p))
    PROVE  StopPath(p)'
<1> USE DEF StopPath, Move, FailTo
<1>0. /\ "stop" \notin Cleaners \cup Removers \cup GoOn \cup Starters
      /\ "stop" # Forced
  BY Zenon, CommandSets DEF Starters
<1>1. CASE Begins(p) \/ Leaves(p)
  BY Zenon, <1>1 DEF Begins, Leaves
<1>2. CASE Enters(p)
  BY Zenon, <1>2 DEF Enters, Within
<1>3. CASE Within(p) /\ Steps(p)
  <2> SUFFICES ASSUME cmd[p] = "stop", ~err'[p]
               PROVE  pc'[p] \in {"lock", "body", "stop_ping", "stop_kill", "stop_lock",
                                  "stop_check", "conmon", "exitwait", "done"}
    BY Zenon, <1>3 DEF Within
  <2>0. ~err[p] => pc[p] \in {"lock", "body", "stop_ping", "stop_kill", "stop_lock",
                              "stop_check", "conmon", "exitwait", "done"}
    BY Zenon
  <2>1. CASE Strolls(p)
    BY Zenon, <1>0, <2>0, <2>1 DEF Strolls
  <2>2. CASE Resaves(p)
    BY Zenon, <1>0, <2>0, <2>2 DEF Resaves
  <2>3. CASE ChecksStop(p) \/ ReadsExit(p)
    BY Zenon, <1>0, <2>0, <2>3 DEF ChecksStop, ReadsExit
  <2>4. CASE /\ Steps(p)
             /\ ~(Strolls(p) \/ Resaves(p) \/ ChecksStop(p) \/ ReadsExit(p))
    BY Zenon, <1>0, <2>0, <2>4 DEF Steps, Deletes, Creates, CreateFails, Created, Starts,
       SavesState, Signals, Stops, StopKills, DiesEarly, TimesOut, Marks, Removes
  <2>5. QED
    BY Zenon, <1>3, <2>1, <2>2, <2>3, <2>4
<1>4. QED
  BY Zenon, <1>1, <1>2, <1>3

\* A step of the process that stops.
LEMMA StepStopped ==
    ASSUME TypeOK, LockHeld, LockHeld', CopyIsCurrent, ~HealthRestart, NEW p \in Procs,
           InPlace(p), OneRun, RowRun, RowKnows, StopPath(p), Stopped(p), intent = p,
           cmd[p] = "stop", ~err'[p], Within(p) /\ Steps(p)
    PROVE  Stopped(p)'
<1>0. /\ pc[p] \in Locked /\ valid[p] /\ pc[p] \notin {"save", "save_created", "conmon"}
           => mem[p] = db
      /\ Present(p) /\ UNCHANGED <<cmd, intent>>
      /\ "stop" \notin Cleaners \cup Removers \cup GoOn \cup Starters /\ "stop" # Forced
  BY Zenon, HolderHasRow, CommandSets DEF InPlace, Within, Starters
<1> USE DEF Move, FailTo
<1>1. CASE pc[p] \in {"lock", "body"}
  <2>1. Stops(p)
    BY Zenon, <1>0, <1>1 DEF Steps, Strolls, ChecksStop, Resaves, Deletes, Creates,
       CreateFails, Created, Starts, SavesState, Signals, StopKills, ReadsExit, DiesEarly,
       TimesOut, Marks, Removes
  <2>2. /\ mem[p] = db /\ db' = mem'[p] /\ pc[p] \in Locked /\ UNCHANGED oci
        /\ pc'[p] \notin Reviving
    BY Zenon, <1>0, <2>1 DEF Stops, Saved, Locked, KeepsWorld, Reviving
  <2>3. Held'
    <3>1. db'.StoppedByUser
      BY Zenon, <2>1, <2>2 DEF Stops, Copy
    <3>2. ASSUME NEW q \in Procs, q # p PROVE pc'[q] \notin Reviving
      <4>1. pc'[q] = pc[q]
        BY Zenon, <3>2 DEF Within, Alone
      <4>2. pc[q] \notin Locked
        BY Zenon, <2>2, <3>2 DEF LockHeld
      <4>3. QED
        BY Zenon, <4>1, <4>2 DEF Reviving, Locked
    <3>3. QED
      BY Zenon, <2>2, <3>1, <3>2 DEF Held
  <2>4. CASE pc'[p] = "stop_ping"
    <3>1. mem'[p].PID = mem[p].PID /\ (Live => db.PID = runs /\ oci.run = runs)
      BY Zenon, <2>1, <2>2, <2>4 DEF Stops, Copy, RowRun, OneRun, MayRun, Live
    <3>2. QED
      BY Zenon, <2>2, <2>3, <2>4, <3>1 DEF Stopped, Live
  <2>5. CASE pc'[p] = "done"
    <3>1. Calm(db)
      BY Zenon, <2>1, <2>2, <2>5 DEF Stops, Calm
    <3>2. ASSUME NEW q \in Procs PROVE pc[q] # "save_created"
      BY Zenon, <2>1, <2>2 DEF LockHeld, Stops, Locked
    <3>3. ~Live
      BY Zenon, <3>1, <3>2 DEF RowKnows
    <3>4. QED
      BY Zenon, <2>2, <2>3, <2>5, <3>3 DEF Stopped, Live
  <2>6. QED
    BY Zenon, <2>1, <2>4, <2>5 DEF Stops
<1>2. CASE pc[p] \in {"stop_ping", "stop_kill", "stop_lock", "stop_check", "conmon", "exitwait",
                      "done"}
  <2>1. ~err[p]
    BY Zenon, <1>2 DEF Steps, Strolls, ChecksStop, Resaves, Deletes, Creates,
       CreateFails, Created, Starts, SavesState, Signals, Stops, StopKills, ReadsExit,
       DiesEarly, TimesOut, Marks, Removes
  <2>2. Held /\ cmd[p] \notin Starters
    BY Zenon, <1>0, <1>2, <2>1 DEF Stopped
  <2>3. Held' /\ ~Creates(p)
    BY Zenon, <2>2, StepHeld
  <2>4. (Live' => Live) /\ (oci'.st # "absent" => oci'.run = oci.run)
    BY Zenon, <2>3, TameStep
  <2>5. CASE pc[p] \in {"stop_ping", "stop_kill"}
    <3>1. Strolls(p) \/ StopKills(p)
      BY Zenon, <2>5 DEF Steps, ChecksStop, Resaves, Deletes, Creates, CreateFails, Created,
         Starts, SavesState, Signals, Stops, ReadsExit, DiesEarly, TimesOut, Marks, Removes
    <3>2. Live => oci.run = mem[p].PID
      BY Zenon, <2>1, <2>5 DEF Stopped
    <3>3. DeadOci.st = "stopped"
      BY Zenon DEF DeadOci, TypeOK, OciType
    <3>4. CASE Strolls(p)
      <4>1. \/ pc'[p] = "stop_kill" /\ mem'[p] = mem[p] /\ UNCHANGED oci
            \/ pc'[p] = "stop_lock" /\ ~Alive(mem[p].PID) /\ UNCHANGED oci
        BY Zenon, <2>5, <3>4 DEF Strolls, KeepsWorld
      <4>2. QED
        BY Zenon, <2>3, <3>2, <4>1 DEF Stopped, Alive, Live
    <3>5. CASE StopKills(p)
      BY Zenon, <2>3, <3>2, <3>3, <3>5 DEF StopKills, Stopped, Alive, Live
    <3>6. QED
      BY Zenon, <3>1, <3>4, <3>5
  <2>6. CASE pc[p] \in {"stop_lock", "stop_check", "conmon", "exitwait", "done"}
    <3>1. ~Live
      BY Zenon, <2>1, <2>6 DEF Stopped
    <3>2. QED
      BY Zenon, <2>3, <2>4, <3>1 DEF Stopped
  <2>7. QED
    BY Zenon, <1>2, <2>5, <2>6
<1>3. CASE pc[p] \notin {"lock", "body", "stop_ping", "stop_kill", "stop_lock", "stop_check",
                         "conmon", "exitwait", "done"}
  <2>1. err[p]
    BY Zenon, <1>3 DEF StopPath
  <2>2. FALSE
    BY Zenon, <1>3, <2>1 DEF Steps, Strolls, ChecksStop, Resaves, Deletes, Creates,
       CreateFails, Created, Starts, SavesState, Signals, Stops, StopKills, ReadsExit,
       DiesEarly, TimesOut, Marks, Removes
  <2>3. QED
    BY Zenon, <2>2
<1>4. QED
  BY Zenon, <1>1, <1>2, <1>3

\* A step of another process than the one that stops.
LEMMA OthersStopped ==
    ASSUME TypeOK, LockHeld, CopyIsCurrent, ~HealthRestart, NEW p \in Procs, NEW q \in Procs,
           q # p, InPlace(p), Stopped(q), intent' = q,
           intent # "none" => \A r \in Procs : cmd[r] \notin Starters,
           Begins(p) \/ Enters(p) \/ Leaves(p) \/ (Within(p) /\ Steps(p))
    PROVE  Stopped(q)'
<1>0. /\ pc'[q] = pc[q] /\ mem'[q] = mem[q] /\ cmd'[q] = cmd[q] /\ err'[q] = err[q]
  BY Zenon DEF Begins, Enters, Leaves, Within, Alone
<1>a. q # "none" /\ q # "stopped"
  BY Zenon, ContainerAssumption
<1>1. intent = q
  <2>1. CASE Begins(p)
    BY Zenon, <1>a, <2>1 DEF Begins
  <2>2. CASE Enters(p) \/ Leaves(p) \/ (Within(p) /\ Steps(p))
    BY Zenon, <1>a, <2>2 DEF Enters, Leaves, Within
  <2>3. QED
    BY Zenon, <2>1, <2>2
<1>2. cmd[p] \notin Starters
  BY Zenon, <1>1, <1>a
<1>3. CASE cmd[q] = "stop" /\ ~err[q] /\ pc[q] \notin {"lock", "body"}
  <2>1. Held
    BY Zenon, <1>1, <1>3 DEF Stopped
  <2>2. Held' /\ ~Creates(p)
    BY Zenon, <1>2, <2>1, StepHeld
  <2>3. (Live' => Live) /\ (oci'.st # "absent" => oci'.run = oci.run)
    BY Zenon, <2>2, TameStep
  <2>4. QED
    BY Zenon, <1>0, <1>1, <1>3, <2>2, <2>3 DEF Stopped, Live
<1>4. CASE ~(cmd[q] = "stop" /\ ~err[q] /\ pc[q] \notin {"lock", "body"})
  BY Zenon, <1>0, <1>4 DEF Stopped
<1>5. QED
  BY Zenon, <1>3, <1>4

\* The users' wishes.
LEMMA StepStop ==
    ASSUME TypeOK, LockHeld, LockHeld', CopyIsCurrent, ~HealthRestart, NEW p \in Procs,
           PlaceInv, RunInv, RowKnows, StopInv,
           Begins(p) \/ Enters(p) \/ Leaves(p) \/ (Within(p) /\ Steps(p))
    PROVE  StopInv'
<1>0. /\ InPlace(p) /\ Task(p) /\ OneRun /\ RowRun /\ StopPath(p) /\ Stopped(p)
      /\ intent # "none" => \A q \in Procs : cmd[q] \notin Starters
      /\ intent = "stopped" => Held /\ ~Live
  BY Zenon DEF PlaceInv, InPlace, RunInv, StopInv
<1>a. /\ p # "none" /\ p # "stopped" /\ "none" \notin Starters /\ "stop" \notin Starters
      /\ (Cleaners \cup Stoppers) \cap Starters = {}
  <2>1. p # "none" /\ p # "stopped"
    BY Zenon, ContainerAssumption
  <2>2. /\ "none" \notin Starters /\ "stop" \notin Starters
        /\ (Cleaners \cup Stoppers) \cap Starters = {}
    BY Zenon DEF Starters, Cleaners, Stoppers
  <2>3. QED
    BY Zenon, <2>1, <2>2
<1>1. ASSUME intent' # "none", NEW q \in Procs PROVE cmd'[q] \notin Starters
  <2>1. q # p => cmd'[q] = cmd[q]
    BY Zenon DEF Begins, Enters, Leaves, Within, Alone
  <2>2. CASE Begins(p)
    <3>1. cmd'[p] \notin Starters
      BY Zenon, <1>1, <1>a, <2>2 DEF Begins
    <3>2. intent # "none" \/ \A r \in Procs : cmd[r] \notin Starters
      BY Zenon, <1>1, <1>a, <2>2 DEF Begins
    <3>3. QED
      BY Zenon, <1>0, <2>1, <3>1, <3>2
  <2>3. CASE Leaves(p)
    <3>1. intent # "none" /\ cmd'[p] = "none"
      BY Zenon, <1>1, <1>a, <2>3 DEF Leaves
    <3>2. QED
      BY Zenon, <1>0, <1>a, <2>1, <3>1
  <2>4. CASE Within(p)
    BY Zenon, <1>0, <1>1, <2>4 DEF Within
  <2>5. QED
    BY Zenon, <2>2, <2>3, <2>4 DEF Enters
<1>2. ASSUME intent' = "stopped" PROVE Held' /\ ~Live'
  <2>1. Held /\ ~Live /\ cmd[p] \notin Starters
    <3>1. CASE intent = "stopped"
      BY Zenon, <1>0, <3>1
    <3>2. CASE intent # "stopped"
      <4>1. /\ Leaves(p) /\ pc[p] = "done" /\ intent = p /\ cmd[p] = "stop" /\ ~err[p]
        BY Zenon, <1>2, <1>a, <3>2 DEF Begins, Enters, Leaves, Within
      <4>2. QED
        BY Zenon, <1>0, <1>a, <4>1 DEF Stopped
    <3>3. QED
      BY Zenon, <3>1, <3>2
  <2>2. Held' /\ ~Creates(p)
    BY Zenon, <1>0, <2>1, StepHeld
  <2>3. QED
    BY Zenon, <2>1, <2>2, TameStep
<1>3. ASSUME NEW q \in Procs PROVE StopPath(q)' /\ Stopped(q)'
  <2>1. CASE q # p
    <3>1. pc'[q] = pc[q] /\ cmd'[q] = cmd[q] /\ err'[q] = err[q]
      BY Zenon, <2>1 DEF Begins, Enters, Leaves, Within, Alone
    <3>2. StopPath(q) /\ Stopped(q)
      BY Zenon DEF StopInv
    <3>3. StopPath(q)'
      BY Zenon, <3>1, <3>2 DEF StopPath
    <3>4. intent' = q => Stopped(q)'
      BY Zenon, <1>0, <2>1, <3>2, OthersStopped
    <3>5. intent' # q => Stopped(q)'
      BY Zenon DEF Stopped
    <3>6. QED
      BY Zenon, <3>3, <3>4, <3>5
  <2>2. CASE q = p
    <3>1. StopPath(p)'
      BY Zenon, <1>0, StepStopPath
    <3>2. ASSUME Begins(p) \/ Leaves(p) PROVE Stopped(p)'
      <4>1. cmd'[p] = "none" \/ pc'[p] = "lock"
        BY Zenon, <3>2 DEF Begins, Leaves
      <4>2. QED
        BY Zenon, <4>1 DEF Stopped
    <3>3. ASSUME Enters(p) PROVE Stopped(p)'
      <4>1. /\ UNCHANGED <<oci, exists, cmd, intent>> /\ err'[p] = err[p]
            /\ \/ pc[p] = "lock" /\ pc'[p] = "body"
               \/ pc[p] = "stop_lock" /\ pc'[p] = "stop_check"
               \/ pc[p] = "exec_lock" /\ pc'[p] = "rm_mark"
               \/ pc[p] = "wait_lock" /\ pc'[p] = "wait_result"
        BY Zenon, <3>3 DEF Enters, Within, KeepsWorld
      <4>2. CASE intent = p /\ cmd[p] = "stop" /\ ~err[p] /\ pc[p] # "lock"
        <5>1. pc[p] = "stop_lock" /\ pc'[p] = "stop_check"
          BY Zenon, <1>0, <4>1, <4>2 DEF StopPath
        <5>2. Held /\ ~Live /\ cmd[p] \notin Starters
          BY Zenon, <1>0, <1>a, <4>2, <5>1 DEF Stopped
        <5>3. Held'
          BY Zenon, <1>0, <3>3, <5>2, StepHeld
        <5>4. ~Live'
          BY Zenon, <4>1, <5>2 DEF Live
        <5>5. QED
          BY Zenon, <5>1, <5>3, <5>4 DEF Stopped
      <4>3. CASE ~(intent = p /\ cmd[p] = "stop" /\ ~err[p] /\ pc[p] # "lock")
        BY Zenon, <4>1, <4>3 DEF Stopped
      <4>4. QED
        BY Zenon, <4>2, <4>3
    <3>4. ASSUME Within(p) /\ Steps(p) PROVE Stopped(p)'
      <4>1. UNCHANGED <<cmd, intent>>
        BY Zenon, <3>4 DEF Within
      <4>2. CASE intent = p /\ cmd[p] = "stop" /\ ~err'[p]
        BY Zenon, <1>0, <3>4, <4>2, StepStopped
      <4>3. CASE ~(intent = p /\ cmd[p] = "stop" /\ ~err'[p])
        BY Zenon, <4>1, <4>3 DEF Stopped
      <4>4. QED
        BY Zenon, <4>2, <4>3
    <3>5. Stopped(p)'
      BY Zenon, <3>2, <3>3, <3>4
    <3>6. QED
      BY Zenon, <2>2, <3>1, <3>5
  <2>3. QED
    BY Zenon, <2>1, <2>2
<1>4. QED
  BY Zenon, <1>1, <1>2, <1>3 DEF StopInv

\* Whatever happens, unless the health check restarts the container.
LEMMA NextStop ==
    ASSUME ~HealthRestart, ~LateExitFile
    PROVE  /\ TypeOK /\ LockHeld /\ LockHeld' /\ CopyIsCurrent /\ PlaceInv /\ RunInv
           /\ Watched /\ RowKnows /\ StopInv /\ [Next]_vars
           => RowKnows' /\ StopInv'
<1> SUFFICES ASSUME TypeOK, LockHeld, LockHeld', CopyIsCurrent, PlaceInv, RunInv, Watched,
                    RowKnows, StopInv, [Next]_vars
             PROVE  RowKnows' /\ StopInv'
  BY Zenon
<1>1. CASE Outside \/ Quiet
  <2>1. /\ UNCHANGED <<pc, mem, cmd, err, intent, db, exists>>
        /\ UNCHANGED oci \/ (Live /\ oci' = DeadOci)
    BY Zenon, <1>1 DEF Outside, Quiet, KeepsRows, KeepsWorld
  <2>2. DeadOci.st = "stopped"
    BY Zenon DEF DeadOci, TypeOK, OciType
  <2>3. (Live' => Live) /\ (Live' => oci'.run = oci.run)
    BY Zenon, <2>1, <2>2 DEF Live
  <2>4. RowKnows'
    BY Zenon, <2>1, <2>3 DEF RowKnows
  <2>5. ASSUME NEW q \in Procs PROVE StopPath(q)' /\ Stopped(q)'
    <3>1. StopPath(q) /\ Stopped(q)
      BY Zenon DEF StopInv
    <3>2. (Held' <=> Held) /\ (StopPath(q)' <=> StopPath(q))
      BY Zenon, <2>1 DEF Held, StopPath
    <3>3. QED
      BY Zenon, <2>1, <2>3, <3>1, <3>2 DEF Stopped
  <2>6. QED
    BY Zenon, <2>1, <2>3, <2>4, <2>5 DEF StopInv, Held
<1>2. ASSUME NEW p \in Procs, Begins(p) \/ Enters(p) \/ Leaves(p) \/ (Within(p) /\ Steps(p))
      PROVE  RowKnows' /\ StopInv'
  <2>1. InPlace(p) /\ OneRun /\ RowRun /\ HasRun(p)
    BY Zenon DEF PlaceInv, RunInv
  <2>2. QED
    BY Zenon, <1>2, <2>1, StepRowKnows, StepStop
<1>3. QED
  BY Zenon, <1>1, <1>2, NextDoes

\* At first nothing lives and no user has asked for anything.
LEMMA InitStop == Init => Watched /\ RowKnows /\ StopInv
<1> SUFFICES ASSUME Init PROVE Watched /\ RowKnows /\ StopInv
  BY Zenon
<1>1. ~Live
  BY Zenon DEF Init, NoOci, Live
<1>2. intent = "none" /\ \A p \in Procs : cmd[p] = "none"
  BY Zenon DEF Init
<1>3. ASSUME NEW p \in Procs PROVE StopPath(p) /\ Stopped(p)
  BY Zenon, <1>2 DEF StopPath, Stopped
<1>4. QED
  BY Zenon, <1>1, <1>2, <1>3 DEF Watched, RowKnows, StopInv

\* A container the user has stopped stays stopped until a user starts it: neither a
\* restart by policy, nor a cleanup or a start that was under way, nor a later stop
\* of other processes brings it back, for any number of processes and commands
\* (StopWithTimeout, Cleanup, shouldRestart).  The health check's on-failure action
\* restarts whatever the user wants, and the exit of a run is taken to be noticed.
THEOREM StopSticks ==
    ASSUME ~HealthRestart, ~LateExitFile, ~ConmonMayDie
    PROVE  Spec => []UserStopSticks
<1>1. StopInv => UserStopSticks
  BY Zenon DEF StopInv, UserStopSticks
<1>2. QED
  BY <1>1, InitTypeOK, NextTypeOK, NextLockHeld, NextIsCurrent, InitPlaces, NextPlaces,
     InitRun, NextRun, InitStop, NextWatched, NextStop, PTL DEF Spec

-----------------------------------------------------------------------------
(* A waiter finds the code *)

\* The latest run has been started and its exit code is still to be recorded.
Pending == runs \in ran /\ codeRow.run < runs

\* The codes of earlier runs are recorded.  While that of the latest is not, the row
\* says that it may be running, or is about to, and its conmon is at work or has left
\* an exit file.
Coded ==
    /\ \A r \in ran : r \in 1 .. runs /\ (codeRow.run >= r \/ r = runs)
    /\ codeRow.run <= runs
    /\ Pending => db.State \in MayRun \/ \E p \in Procs : pc[p] = "save"
    /\ Pending /\ conmon[runs] # "monitoring" => exitFile # NoFile
    /\ \A r \in Runs : conmon[r] # "none" => r <= runs

\* A waiter has seen conmon gone before it looks for the code.
Waits(p) ==
    /\ pc[p] = "save_created" => runs \notin ran
    /\ pc[p] \in {"wait_conmon", "wait_lock"} => conmonPID[p] \in Runs
    /\ pc[p] = "wait_lock" => conmon[conmonPID[p]] = "gone"
    /\ pc[p] = "wait_result" /\ conmonPID[p] \in ran => codeRow.run >= conmonPID[p]

CodeInv == Forced \notin begun => Coded /\ \A p \in Procs : Waits(p)

\* Only the code of the latest run is ever recorded.
LEMMA CodeOfLatest ==
    ASSUME TypeOK, NEW p \in Procs, OneRun, HasRun(p),
           Begins(p) \/ Enters(p) \/ Leaves(p) \/ (Within(p) /\ Steps(p))
    PROVE  /\ UNCHANGED codeRow \/ codeRow'.run = runs
           /\ UNCHANGED ran \/ (Starts(p) /\ ran' = ran \cup {runs})
<1>1. CASE Begins(p) \/ Leaves(p)
  BY Zenon, <1>1 DEF Begins, Leaves, KeepsRows, KeepsWorld
<1>2. CASE Enters(p)
  <2>1. UNCHANGED codeRow \/ (SeesExit(db) /\ codeRow' = exitFile)
    BY Zenon, <1>2 DEF Enters
  <2>2. UNCHANGED ran
    BY Zenon, <1>2 DEF Enters, KeepsWorld
  <2>3. QED
    BY Zenon, <2>1, <2>2 DEF SeesExit, OneRun
<1>3. CASE Within(p) /\ Steps(p)
  <2>1. CASE Starts(p)
    BY Zenon, <2>1 DEF Starts, KeepsRows, OneRun
  <2>2. CASE ReadsExit(p)
    <3>1. UNCHANGED ran /\ (UNCHANGED codeRow \/ (SeesExit(mem[p]) /\ codeRow' = exitFile))
      BY Zenon, <2>2 DEF ReadsExit, KeepsWorld
    <3>2. QED
      BY Zenon, <3>1 DEF SeesExit, OneRun
  <2>3. CASE DiesEarly(p)
    BY Zenon, <2>3 DEF DiesEarly, FailTo, HasRun
  <2>4. CASE Steps(p) /\ ~(Starts(p) \/ ReadsExit(p) \/ DiesEarly(p))
    BY Zenon, <2>4 DEF Steps, Strolls, ChecksStop, Resaves, Deletes, Creates, CreateFails,
       Created, SavesState, Signals, Stops, StopKills, TimesOut, Marks, Removes, KeepsRows,
       KeepsWorld
  <2>5. QED
    BY Zenon, <1>3, <2>1, <2>2, <2>3, <2>4
<1>4. QED
  BY Zenon, <1>1, <1>2, <1>3

\* The run of a code, and what is known of the code of a run that was started.
LEMMA CodeFacts ==
    ASSUME TypeOK, Coded
    PROVE  /\ runs \in Nat /\ codeRow.run \in Nat /\ codeRow.run <= runs
           /\ Pending => codeRow.run # runs /\ runs # 0
           /\ \A r \in ran : /\ r \in Nat /\ r # 0 /\ r <= runs
                             /\ codeRow.run >= r \/ (r = runs /\ Pending)
           /\ runs + 1 \notin ran
<1>1. codeRow \in ExitFiles /\ runs \in 0 .. MaxRuns
  BY Zenon DEF TypeOK
<1>2. runs \in Nat /\ codeRow.run \in Nat
  BY <1>1 DEF ExitFiles
<1>3. codeRow.run <= runs /\ \A r \in ran : r \in 1 .. runs /\ (codeRow.run >= r \/ r = runs)
  BY Zenon DEF Coded
<1>4. Pending <=> runs \in ran /\ codeRow.run < runs
  BY Zenon DEF Pending
<1>5. QED
  BY <1>2, <1>3, <1>4

\* No code is awaited where the holder of the lock finds the container at rest.
LEMMA NothingPending ==
    ASSUME LockHeld, Coded, NEW p \in Procs, pc[p] \in Locked, pc[p] # "save",
           db.State \notin MayRun
    PROVE  ~Pending
<1>1. ASSUME NEW q \in Procs PROVE pc[q] # "save"
  BY Zenon DEF LockHeld, Locked
<1>2. QED
  BY Zenon, <1>1 DEF Coded

\* While a code is awaited, the row says that the container may be running.
LEMMA StepPending ==
    ASSUME TypeOK, LockHeld, LockHeld', CopyIsCurrent, ~LateExitFile, ~PodmanMayDie,
           NEW p \in Procs, InPlace(p), ~exists => db.State \notin MayRun, OneRun, RowRun,
           HasRun(p), Gone(p), Coded, Waits(p), Pending, Pending', UNCHANGED <<codeRow, ran>>,
           Begins(p) \/ Enters(p) \/ Leaves(p) \/ (Within(p) /\ Steps(p))
    PROVE  db'.State \in MayRun \/ \E q \in Procs : pc'[q] = "save"
<1>0. /\ pc[p] \in Locked /\ valid[p] /\ pc[p] \notin {"save", "save_created", "conmon"}
           => mem[p] = db
      /\ Present(p) /\ Shape(p) /\ Task(p)
  BY Zenon, HolderHasRow DEF InPlace
<1>a. codeRow.run # runs /\ runs # 0
  BY Zenon, CodeFacts
<1>b. exitFile # NoFile => codeRow' # exitFile
  BY Zenon, <1>a DEF OneRun
<1> USE DEF Move, FailTo
<1>1. CASE \E q \in Procs : q # p /\ pc[q] = "save"
  <2>1. PICK q \in Procs : q # p /\ pc[q] = "save"
    BY Zenon, <1>1
  <2>2. pc'[q] = pc[q]
    BY Zenon, <2>1 DEF Begins, Enters, Leaves, Within, Alone
  <2>3. QED
    BY Zenon, <2>1, <2>2
<1>2. CASE pc[p] = "save"
  <2>1. SavesState(p)
    BY Zenon, <1>2 DEF Begins, Enters, Leaves, Steps, Strolls, ChecksStop, Resaves, Deletes,
       Creates, CreateFails, Created, Starts, Signals, Stops, StopKills, ReadsExit,
       DiesEarly, TimesOut, Marks, Removes
  <2>2. valid[p] /\ mem[p].State \in MayRun
    BY Zenon, <1>0, <1>2 DEF Present, Shape
  <2>3. QED
    BY Zenon, <2>1, <2>2 DEF SavesState, Saved
<1>3. CASE db.State \in MayRun /\ pc[p] # "save"
  <2>1. CASE Begins(p) \/ Leaves(p)
    BY Zenon, <1>3, <2>1 DEF Begins, Leaves, KeepsRows
  <2>2. CASE Enters(p)
    <3>1. \/ UNCHANGED db \/ db'.State = db.State
          \/ SeesExit(db) /\ codeRow' = exitFile
      BY Zenon, <2>2 DEF Enters
    <3>2. ~(SeesExit(db) /\ codeRow' = exitFile)
      BY Zenon, <1>b DEF SeesExit
    <3>3. QED
      BY Zenon, <1>3, <3>1, <3>2
  <2>3. CASE Steps(p)
    <3>1. CASE UNCHANGED db
      BY Zenon, <1>3, <3>1
    <3>2. CASE Resaves(p)
      <4>1. pc[p] \in Locked /\ pc[p] \notin {"save", "save_created", "conmon"}
        BY Zenon, <3>2 DEF Resaves, Locked
      <4>2. Saved(p) /\ mem'[p].State = mem[p].State
        BY Zenon, <3>2 DEF Resaves, SameCopy, Copy
      <4>3. QED
        BY Zenon, <1>0, <1>3, <4>1, <4>2 DEF Saved
    <3>3. CASE Deletes(p)
      <4>1. /\ pc[p] \in Locked /\ pc[p] \notin {"save", "save_created", "conmon"}
            /\ Saved(p) /\ mem[p].State \in {"Stopped", "Created"}
        BY Zenon, <3>3 DEF Deletes, Locked
      <4>2. QED
        BY Zenon, <1>0, <1>3, <4>1 DEF Saved, MayRun
    <3>4. CASE Created(p)
      BY Zenon, <3>4 DEF Created, Waits, Pending
    <3>5. CASE SavesState(p) \/ ReadsExit(p)
      <4>1. valid[p] /\ mem[p].State \in MayRun
        BY Zenon, <1>0, <3>5 DEF SavesState, ReadsExit, Present, Shape
      <4>2. ~(SeesExit(mem[p]) /\ codeRow' = exitFile)
        BY Zenon, <1>b DEF SeesExit
      <4>3. Saved(p) /\ mem'[p] = mem[p]
        BY Zenon, <3>5, <4>2 DEF SavesState, ReadsExit
      <4>4. QED
        BY Zenon, <4>1, <4>3 DEF Saved
    <3>6. CASE Stops(p)
      <4>1. mem'[p].State \in {mem[p].State, "Stopping"} /\ db' = mem'[p] /\ mem[p] = db
        BY Zenon, <1>0, <3>6 DEF Stops, Copy, Saved, Locked
      <4>2. QED
        BY Zenon, <1>3, <4>1 DEF MayRun
    <3>7. CASE DiesEarly(p)
      BY Zenon, <1>a, <3>7 DEF DiesEarly, HasRun
    <3>8. CASE TimesOut(p)
      <4>1. /\ pc[p] = "exitwait" /\ valid[p] /\ mem[p] = db /\ db.PID = runs
            /\ exitFile = NoFile /\ ~ConmonRunning(mem[p])
        BY Zenon, <1>0, <1>3, <3>8 DEF TimesOut, Present, Locked, RowRun
      <4>2. conmon[runs] # "monitoring"
        BY Zenon, <1>a, <4>1 DEF ConmonRunning
      <4>3. QED
        BY Zenon, <4>1, <4>2 DEF Coded
    <3>9. CASE Marks(p)
      <4>1. mem[p].State \notin MayRun
        BY Zenon, <1>0, <3>9 DEF Marks, Task, Gone, RemovalPath
      <4>2. Saved(p) /\ pc[p] = "rm_mark"
        BY Zenon, <3>9 DEF Marks
      <4>3. QED
        BY Zenon, <1>0, <1>3, <4>1, <4>2 DEF Saved, Locked
    <3>10. QED
      BY Zenon, <2>3, <3>1, <3>2, <3>3, <3>4, <3>5, <3>6, <3>7, <3>8, <3>9 DEF Steps, Strolls,
         ChecksStop, Creates, CreateFails, Starts, Signals, StopKills, Removes, KeepsRows
  <2>4. QED
    BY Zenon, <2>1, <2>2, <2>3
<1>4. QED
  BY Zenon, <1>1, <1>2, <1>3 DEF Coded

\* A step of a process.
LEMMA StepCoded ==
    ASSUME TypeOK, LockHeld, LockHeld', CopyIsCurrent, ~LateExitFile, ~PodmanMayDie,
           NEW p \in Procs, InPlace(p), ~exists => db.State \notin MayRun, OneRun, RowRun,
           HasRun(p), Watched, Gone(p), Coded, Waits(p),
           Begins(p) \/ Enters(p) \/ Leaves(p) \/ (Within(p) /\ Steps(p))
    PROVE  Coded'
<1>0. /\ pc[p] \in Locked /\ valid[p] /\ pc[p] \notin {"save", "save_created", "conmon"}
           => mem[p] = db
      /\ Present(p) /\ Shape(p)
  BY Zenon, HolderHasRow DEF InPlace
<1>a. /\ runs \in 0 .. MaxRuns /\ codeRow.run \in 0 .. MaxRuns /\ ran \subseteq 0 .. MaxRuns
      /\ conmon \in [Runs -> {"none", "monitoring", "exiting", "gone"}]
  BY Zenon DEF TypeOK, ExitFiles
<1> USE DEF Move, FailTo
<1>1. CASE Creates(p)
  <2>1. pc[p] = "create" /\ valid[p] /\ mem[p].State \in {"Configured", "Exited"} /\ mem[p] = db
    BY Zenon, <1>0, <1>1 DEF Creates, Present, Shape, Locked
  <2>2. ~Pending
    BY Zenon, <2>1, NothingPending DEF Locked, MayRun
  <2>3. /\ runs' = runs + 1 /\ runs < MaxRuns /\ UNCHANGED <<ran, codeRow>>
        /\ conmon' = [conmon EXCEPT ![runs'] = "monitoring"]
    BY Zenon, <1>1 DEF Creates, KeepsRows
  <2>4. \A r \in ran : r \in 1 .. runs /\ codeRow.run >= r
    BY <1>a, <2>2 DEF Coded, Pending
  <2>5. /\ \A r \in ran' : r \in 1 .. runs' /\ codeRow'.run >= r
        /\ codeRow'.run <= runs' /\ ~Pending'
    BY <1>a, <2>3, <2>4 DEF Coded, Pending
  <2>6. \A r \in Runs : conmon'[r] # "none" => r <= runs'
    BY <1>a, <2>3 DEF Coded, Runs
  <2>7. QED
    BY Zenon, <2>5, <2>6 DEF Coded
<1>2. CASE ~Creates(p)
  <2>0. UNCHANGED <<runs, conmon>>
    BY Zenon, <1>2, TameStep
  <2>1. /\ UNCHANGED codeRow \/ codeRow'.run = runs
        /\ UNCHANGED ran \/ (Starts(p) /\ ran' = ran \cup {runs})
    BY Zenon, CodeOfLatest
  <2>2. Starts(p) => runs \in Runs /\ conmon[runs] = "monitoring"
    BY Zenon DEF Starts, Watched, Live
  <2>a. codeRow'.run >= codeRow.run /\ codeRow'.run \in 0 .. MaxRuns
    BY <1>a, <2>1 DEF Coded
  <2>b. ASSUME NEW r \in ran'
        PROVE  r \in 1 .. runs' /\ (codeRow'.run >= r \/ r = runs')
    <3>1. CASE r \in ran
      BY <1>a, <2>0, <2>a, <3>1 DEF Coded
    <3>2. CASE r = runs /\ Starts(p)
      BY <1>a, <2>0, <2>2, <3>2 DEF Runs
    <3>3. QED
      BY <2>1, <2>b, <3>1, <3>2
  <2>c. codeRow'.run <= runs'
    BY <1>a, <2>0, <2>1 DEF Coded
  <2>3. /\ \A r \in ran' : r \in 1 .. runs' /\ (codeRow'.run >= r \/ r = runs')
        /\ codeRow'.run <= runs'
        /\ \A r \in Runs : conmon'[r] # "none" => r <= runs'
    BY Zenon, <2>0, <2>b, <2>c DEF Coded
  <2>4. Pending' => UNCHANGED codeRow /\ (Starts(p) \/ (UNCHANGED ran /\ Pending))
    BY <1>a, <2>0, <2>1 DEF Pending
  <2>5. ASSUME Pending' PROVE db'.State \in MayRun \/ \E q \in Procs : pc'[q] = "save"
    <3>1. CASE Starts(p)
      BY Zenon, <3>1 DEF Starts
    <3>2. CASE ~Starts(p)
      BY Zenon, <2>4, <2>5, <3>2, StepPending
    <3>3. QED
      BY Zenon, <3>1, <3>2
  <2>6. ASSUME Pending', conmon'[runs'] # "monitoring" PROVE exitFile' # NoFile
    <3>1. ~Starts(p) /\ Pending /\ exitFile # NoFile
      BY Zenon, <2>0, <2>2, <2>4, <2>6 DEF Coded
    <3>2. CASE UNCHANGED exitFile
      BY Zenon, <3>1, <3>2
    <3>3. CASE Deletes(p)
      <4>1. /\ pc[p] \in Locked /\ pc[p] \notin {"save", "save_created", "conmon"}
            /\ mem[p].State \in {"Stopped", "Created"}
        BY Zenon, <3>3 DEF Deletes, Locked
      <4>2. db.State \notin MayRun
        BY Zenon, <1>0, <4>1 DEF Present, MayRun
      <4>3. QED
        BY Zenon, <3>1, <4>1, <4>2, NothingPending
    <3>4. CASE CreateFails(p)
      <4>1. pc[p] = "create" /\ valid[p] /\ mem[p].State \in {"Configured", "Exited"}
            /\ mem[p] = db
        BY Zenon, <1>0, <3>4 DEF CreateFails, Present, Shape, Locked
      <4>2. QED
        BY Zenon, <3>1, <4>1, NothingPending DEF Locked, MayRun
    <3>5. QED
      BY Zenon, <1>2, <3>1, <3>2, <3>3, <3>4 DEF Begins, Enters, Leaves, Steps, Strolls,
         ChecksStop, Resaves, Created, SavesState, Signals, Stops, StopKills, ReadsExit,
         DiesEarly, TimesOut, Marks, Removes, KeepsWorld
  <2>7. QED
    BY Zenon, <2>3, <2>5, <2>6 DEF Coded
<1>3. QED
  BY Zenon, <1>1, <1>2

\* A waiter's own step: with the lock it finds the exit file that conmon has left.
LEMMA StepWaits ==
    ASSUME TypeOK, LockHeld, NEW p \in Procs, InPlace(p), ~exists => db.State \notin MayRun,
           OneRun, Coded, Waits(p),
           Begins(p) \/ Enters(p) \/ Leaves(p) \/ (Within(p) /\ Steps(p))
    PROVE  Waits(p)'
<1>a. mem[p].PID # 0 => mem[p].PID \in Runs
  <2>1. mem[p] \in StateType
    BY Zenon DEF TypeOK
  <2>2. QED
    BY <2>1 DEF StateType, Runs
<1> USE DEF Move, FailTo
<1>1. CASE Begins(p) \/ Leaves(p)
  BY Zenon, <1>1 DEF Begins, Leaves, Waits
<1>2. CASE Enters(p)
  <2>1. CASE pc[p] # "wait_lock"
    BY Zenon, <1>2, <2>1 DEF Enters, Waits
  <2>2. CASE pc[p] = "wait_lock"
    <3>1. /\ pc'[p] = "wait_result" /\ conmonPID'[p] = conmonPID[p] /\ UNCHANGED <<ran, runs>>
          /\ lock = NoProc
      BY Zenon, <1>2, <2>2 DEF Enters, KeepsWorld
    <3>2. ASSUME conmonPID[p] \in ran PROVE codeRow'.run >= conmonPID[p]
      <4>1. UNCHANGED codeRow \/ (SeesExit(db) /\ codeRow' = exitFile)
        BY Zenon, <1>2 DEF Enters
      <4>a. /\ conmonPID[p] \in Nat /\ runs \in Nat /\ conmonPID[p] <= runs
            /\ codeRow.run >= conmonPID[p] \/ (conmonPID[p] = runs /\ Pending)
        BY <3>2, CodeFacts
      <4>2. CASE ~Pending \/ conmonPID[p] # runs
        <5>1. SeesExit(db) => exitFile.run = runs
          BY Zenon DEF SeesExit, OneRun
        <5>2. QED
          BY Zenon, <4>1, <4>2, <4>a, <5>1
      <4>4. CASE Pending /\ conmonPID[p] = runs
        <5>1. conmon[runs] = "gone"
          BY Zenon, <2>2, <4>4 DEF Waits
        <5>2. exitFile # NoFile
          BY Zenon, <4>4, <5>1 DEF Coded
        <5>3. ASSUME NEW q \in Procs PROVE pc[q] # "save"
          BY Zenon, <3>1, ContainerAssumption DEF LockHeld, Locked
        <5>4. db.State \in MayRun /\ exists
          BY Zenon, <4>4, <5>3 DEF Coded
        <5>5. valid[p]
          BY Zenon, <2>2 DEF InPlace, Present, Unlocked
        <5>6. SeesExit(db)
          BY Zenon, <5>2, <5>4 DEF SeesExit, MayRun
        <5>7. codeRow' = exitFile /\ exitFile.run = runs
          BY Zenon, <1>2, <5>2, <5>4, <5>5, <5>6 DEF Enters, OneRun
        <5>8. QED
          BY Zenon, <4>4, <4>a, <5>7
      <4>5. QED
        BY Zenon, <4>2, <4>4
    <3>3. QED
      BY Zenon, <3>1, <3>2 DEF Waits
  <2>3. QED
    BY Zenon, <2>1, <2>2
<1>3. CASE Steps(p)
  <2>1. CASE Creates(p)
    <3>1. pc'[p] = "save_created" /\ runs' = runs + 1 /\ ran' = ran
      BY Zenon, <2>1 DEF Creates
    <3>2. runs' \notin ran'
      BY Zenon, <3>1, CodeFacts
    <3>3. QED
      BY Zenon, <3>1, <3>2 DEF Waits
  <2>2. CASE ~Creates(p)
    <3>1. \/ pc'[p] \notin {"save_created", "wait_conmon", "wait_lock", "wait_result"}
          \/ pc'[p] = "wait_conmon" /\ mem[p].PID # 0 /\ conmonPID'[p] = mem[p].PID
          \/ /\ pc[p] = "wait_conmon" /\ pc'[p] = "wait_lock" /\ UNCHANGED conmon
             /\ conmon[conmonPID[p]] = "gone" /\ conmonPID'[p] = conmonPID[p]
      <4>1. CASE Strolls(p)
        BY Zenon, <4>1 DEF Strolls, KeepsWorld
      <4>2. CASE ~Strolls(p)
        BY Zenon, <1>3, <2>2, <4>2 DEF Steps, ChecksStop, Resaves, Deletes, CreateFails,
           Created, Starts, SavesState, Signals, Stops, StopKills, ReadsExit, DiesEarly,
           TimesOut, Marks, Removes
      <4>3. QED
        BY Zenon, <4>1, <4>2
    <3>2. QED
      BY Zenon, <1>a, <3>1 DEF Waits
  <2>3. QED
    BY Zenon, <2>1, <2>2
<1>4. QED
  BY Zenon, <1>1, <1>2, <1>3

\* A step of another process.
LEMMA OthersWait ==
    ASSUME TypeOK, LockHeld, LockHeld', NEW p \in Procs, NEW q \in Procs, q # p, OneRun,
           HasRun(p), Coded, Waits(q),
           Begins(p) \/ Enters(p) \/ Leaves(p) \/ (Within(p) /\ Steps(p))
    PROVE  Waits(q)'
<1>0. pc'[q] = pc[q] /\ conmonPID'[q] = conmonPID[q]
  BY Zenon DEF Begins, Enters, Leaves, Within, Alone
<1>a. /\ runs \in 0 .. MaxRuns /\ codeRow.run \in 0 .. MaxRuns
      /\ conmon \in [Runs -> {"none", "monitoring", "exiting", "gone"}]
  <2>1. /\ codeRow \in ExitFiles /\ runs \in 0 .. MaxRuns
        /\ conmon \in [Runs -> {"none", "monitoring", "exiting", "gone"}]
    BY Zenon DEF TypeOK
  <2>2. QED
    BY Zenon, <2>1 DEF ExitFiles
<1>1. /\ UNCHANGED codeRow \/ codeRow'.run = runs
      /\ UNCHANGED ran \/ (Starts(p) /\ ran' = ran \cup {runs})
  BY Zenon, CodeOfLatest
<1>2. CASE pc[q] \in Locked
  <2>1. pc[p] \notin Locked
    BY Zenon, <1>0, <1>2, HolderExcludes
  <2>2. ~Creates(p) /\ ~Starts(p)
    BY Zenon, <2>1 DEF Creates, Starts, Move, Locked
  <2>3. UNCHANGED runs
    BY Zenon, <2>2, TameStep
  <2>4. UNCHANGED ran
    BY Zenon, <1>1, <2>2
  <2>5. ASSUME pc[q] = "wait_result", conmonPID[q] \in ran PROVE codeRow'.run >= conmonPID[q]
    <3>1. codeRow.run >= conmonPID[q]
      BY Zenon, <2>5 DEF Waits
    <3>a. conmonPID[q] <= runs
      BY <2>5, CodeFacts
    <3>2. QED
      BY Zenon, <1>1, <3>1, <3>a
  <2>6. QED
    BY Zenon, <1>0, <1>2, <2>3, <2>4, <2>5 DEF Waits, Locked
<1>3. CASE pc[q] \notin Locked
  <2>1. pc[q] \notin {"save_created", "wait_result"}
    BY Zenon, <1>3 DEF Locked
  <2>2. ASSUME pc[q] = "wait_lock" PROVE conmon'[conmonPID[q]] = "gone"
    <3>1. CASE Creates(p)
      <4>1. /\ runs' = runs + 1 /\ conmon' = [conmon EXCEPT ![runs'] = "monitoring"]
        BY Zenon, <3>1 DEF Creates
      <4>2. conmonPID[q] \in Runs /\ conmonPID[q] <= runs /\ conmon[conmonPID[q]] = "gone"
        BY Zenon, <2>2 DEF Waits, Coded
      <4>3. QED
        BY <1>a, <4>1, <4>2
    <3>2. CASE ~Creates(p)
      <4>1. UNCHANGED conmon
        BY Zenon, <3>2, TameStep
      <4>2. QED
        BY Zenon, <2>2, <4>1 DEF Waits
    <3>3. QED
      BY Zenon, <3>1, <3>2
  <2>3. QED
    BY Zenon, <1>0, <2>1, <2>2 DEF Waits
<1>4. QED
  BY Zenon, <1>2, <1>3

\* The container's process and conmon: a conmon that stops monitoring leaves its exit
\* file.
LEMMA OutsideCoded ==
    ASSUME TypeOK, ~ConmonMayDie, Coded, \A p \in Procs : Waits(p), Outside
    PROVE  Coded' /\ \A p \in Procs : Waits(p)'
<1>0. /\ UNCHANGED <<pc, conmonPID, runs, ran, db, codeRow>>
      /\ conmon \in [Runs -> {"none", "monitoring", "exiting", "gone"}]
  BY Zenon DEF Outside, KeepsRows, TypeOK
<1>1. Pending' <=> Pending
  BY Zenon, <1>0 DEF Pending
<1>2. CASE UNCHANGED <<conmon, exitFile>>
  <2>1. ASSUME NEW p \in Procs PROVE Waits(p)'
    BY Zenon, <1>0, <1>2 DEF Waits
  <2>2. QED
    BY Zenon, <1>0, <1>1, <1>2, <2>1 DEF Coded
<1>3. ASSUME NEW r \in Runs, NEW c \in {"exiting", "gone"}, conmon[r] # "none", conmon[r] # "gone",
             conmon' = [conmon EXCEPT ![r] = c],
             exitFile' # NoFile \/ (UNCHANGED exitFile /\ conmon[r] # "monitoring")
      PROVE  Coded' /\ \A p \in Procs : Waits(p)'
  <2>1. /\ \A s \in Runs : conmon'[s] # "none" => conmon[s] # "none"
        /\ \A s \in Runs : conmon[s] = "gone" => conmon'[s] = "gone"
        /\ \A s \in Runs : s # r => conmon'[s] = conmon[s]
    BY Zenon, <1>0, <1>3
  <2>2. ASSUME NEW p \in Procs PROVE Waits(p)'
    BY Zenon, <1>0, <2>1 DEF Waits
  <2>3. ASSUME Pending, conmon'[runs] # "monitoring" PROVE exitFile' # NoFile
    <3>1. CASE exitFile' # NoFile
      BY Zenon, <3>1
    <3>2. CASE UNCHANGED exitFile /\ conmon[r] # "monitoring"
      <4>1. conmon[runs] # "monitoring"
        BY <1>3, <2>3, <3>2
      <4>2. QED
        BY Zenon, <2>3, <3>2, <4>1 DEF Coded
    <3>3. QED
      BY Zenon, <1>3, <3>1, <3>2
  <2>4. QED
    BY Zenon, <1>0, <1>1, <2>1, <2>2, <2>3 DEF Coded
<1>4. QED
  BY Zenon, <1>2, <1>3 DEF Outside

\* Whatever happens, as long as no removal by force has begun.
LEMMA NextCode ==
    ASSUME ~LateExitFile, ~ConmonMayDie, ~PodmanMayDie, ~ExecBusy
    PROVE  /\ TypeOK /\ LockHeld /\ LockHeld' /\ CopyIsCurrent /\ PlaceInv /\ RunInv
           /\ GoneInv /\ Watched /\ CodeInv /\ [Next]_vars
           => CodeInv'
<1> SUFFICES ASSUME TypeOK, LockHeld, LockHeld', CopyIsCurrent, PlaceInv, RunInv, GoneInv,
                    Watched, CodeInv, [Next]_vars, Forced \notin begun'
             PROVE  CodeInv'
  BY Zenon DEF CodeInv
<1>1. CASE Quiet
  <2>1. Forced \notin begun
    BY Zenon, <1>1 DEF Quiet
  <2>2. Coded /\ \A p \in Procs : Waits(p)
    BY Zenon, <2>1 DEF CodeInv
  <2>3. Coded' /\ \A p \in Procs : Waits(p)'
    BY Zenon, <1>1, <2>2 DEF Quiet, KeepsRows, KeepsWorld, Coded, Waits, Pending
  <2>4. QED
    BY Zenon, <2>3 DEF CodeInv
<1>2. CASE Outside
  <2>1. Forced \notin begun
    BY Zenon, <1>2 DEF Outside
  <2>2. QED
    BY Zenon, <1>2, <2>1, OutsideCoded DEF CodeInv
<1>3. ASSUME NEW p \in Procs, Begins(p) \/ Enters(p) \/ Leaves(p) \/ (Within(p) /\ Steps(p))
      PROVE  CodeInv'
  <2>1. Forced \notin begun
    BY Zenon, <1>3 DEF Begins, Enters, Leaves, Within
  <2>2. /\ Coded /\ (\A q \in Procs : Waits(q)) /\ Gone(p) /\ InPlace(p) /\ OneRun /\ RowRun
        /\ HasRun(p) /\ (~exists => db.State \notin MayRun)
    BY Zenon, <2>1 DEF CodeInv, GoneInv, PlaceInv, RunInv
  <2>3. Coded'
    BY Zenon, <1>3, <2>2, StepCoded
  <2>4. ASSUME NEW q \in Procs PROVE Waits(q)'
    <3>1. CASE q = p
      <4>1. Waits(p)'
        BY Zenon, <1>3, <2>2, StepWaits
      <4>2. QED
        BY Zenon, <3>1, <4>1
    <3>2. CASE q # p
      BY Zenon, <1>3, <2>2, <3>2, OthersWait
    <3>3. QED
      BY Zenon, <3>1, <3>2
  <2>5. QED
    BY Zenon, <2>3, <2>4 DEF CodeInv
<1>4. QED
  BY Zenon, <1>1, <1>2, <1>3, NextDoes

\* At first no run has been started.
LEMMA InitCode == Init => CodeInv
<1> SUFFICES ASSUME Init PROVE Coded /\ \A p \in Procs : Waits(p)
  BY Zenon DEF CodeInv
<1>1. /\ ran = {} /\ runs = 0 /\ codeRow.run = 0 /\ \A p \in Procs : pc[p] = "idle"
      /\ \A r \in Runs : conmon[r] = "none"
  BY Zenon DEF Init, NoFile
<1>2. ~Pending /\ Coded
  BY <1>1 DEF Coded, Pending
<1>3. QED
  BY Zenon, <1>1, <1>2 DEF Waits

\* WaitForExit finds the exit code of the run it waited for, or of a later one, if
\* that run was ever started, for any number of processes and commands: whoever
\* takes the lock first after conmon is gone records the code (syncContainer,
\* checkExitFile, waitForConmonToExitAndSave).  It is assumed that no podman process
\* and no conmon is killed, that the exit file is there before the next run is
\* created, and that no exec session makes a removal give the lock up.
THEOREM WaitersFindTheCode ==
    ASSUME ~LateExitFile, ~ConmonMayDie, ~PodmanMayDie, ~ExecBusy
    PROVE  Spec => []WaiterFindsCode
<1>1. CodeInv => WaiterFindsCode
  BY Zenon DEF CodeInv, Waits, WaiterFindsCode, Forced
<1>2. QED
  BY <1>1, InitTypeOK, NextTypeOK, NextLockHeld, NextIsCurrent, InitPlaces, NextPlaces,
     InitRun, NextRun, InitGone, NextGone, InitStop, NextWatched, InitCode, NextCode,
     PTL DEF Spec
=============================================================================
