------------------------- MODULE ObjectLocks_proofs -------------------------
(***************************************************************************)
(* Proofs about ObjectLocks, for any objects, locks and processes: no two  *)
(* objects share a lock, renumbering repairs, no lock leaks.               *)
(***************************************************************************)
EXTENDS ObjectLocks, FiniteSetTheorems, TLAPS

\* refresh and renumber run alone.
Alone == mode # "up" => \A p \in Procs : proc[p] = Idle

\* A process that is not idle works on an object, with a lock.
Busy ==
    \A p \in Procs : proc[p] # Idle =>
        proc[p].pc # "idle" /\ proc[p].obj \in Objects /\ proc[p].lock \in Locks

\* From Lock to Unlock the mutex is held.
Holds ==
    \A p \in Procs : proc[p].pc \in {"remove", "free", "teardown"} =>
        mutex[proc[p].lock] = p

BaseInv == TypeOK /\ Alone /\ Busy /\ Holds

\* What renumbering has visited has a lock of its own, and no other is allocated.
Renumbered ==
    mode = "renumber" =>
        /\ \A o \in Objects : todo[o] # Nil => row[o] # Nil
        /\ bitmap = {row[o] : o \in {r \in Rows : todo[r] = Nil}}
        /\ \A o1, o2 \in Rows : todo[o1] = Nil /\ todo[o2] = Nil /\ row[o1] = row[o2]
                                => o1 = o2

\* An ID is given once: what a process has read of a row is right until the row
\* is gone, and it does not come back.
Stable ==
    "reuse" \notin faults =>
        /\ \A o \in Objects : row[o] # Nil => o \in used
        /\ \A p \in Procs : proc[p].pc \notin {"idle", "create"} => proc[p].obj \in used
        /\ \A p \in Procs : proc[p].pc = "create" /\ proc[p].obj \notin Vols =>
              /\ proc[p].obj \in used /\ row[proc[p].obj] = Nil
              /\ \A q \in Procs \ {p} : proc[q].obj # proc[p].obj
        /\ \A p \in Procs : proc[p].pc \in {"load", "remove", "window"} =>
              row[proc[p].obj] \in {Nil, proc[p].lock}

\* The processes that own a lock no row names.
Owner(p) == proc[p].pc \in {"create", "free"}

Benign == faults \subseteq {"die", "reboot", "evict"}

\* A removal that has the lock has the row that names it.
RemoverHasRow ==
    Benign =>
        /\ \A p \in Procs : proc[p].pc \notin {"created", "window"}
        /\ mode = "up" =>
              \A p \in Procs : proc[p].pc = "remove" => row[proc[p].obj] = proc[p].lock

\* No two rows name the same lock ...
RowsApart ==
    Benign /\ mode # "renumber" => \A o1, o2 \in Rows : row[o1] = row[o2] => o1 = o2

\* ... nor a row and an owner, or two owners, whose locks are allocated.
OwnersApart ==
    Benign /\ mode = "up" =>
        \A p \in Procs : Owner(p) =>
            /\ proc[p].lock \in bitmap
            /\ \A o \in Rows : row[o] # proc[p].lock
            /\ \A q \in Procs \ {p} : Owner(q) => proc[q].lock # proc[p].lock

\* The locks of rows are allocated, or will be once refresh comes to them.
RowsAllocated ==
    Benign =>
        /\ mode = "up" => \A o \in Rows : row[o] \in bitmap
        /\ mode = "refresh" =>
              \A o \in Rows : /\ todo[o] # Nil => todo[o] = row[o]
                              /\ todo[o] = Nil => row[o] \in bitmap

\* Every allocated lock has an owner.
Owned ==
    faults \subseteq {"exec"} =>
        /\ mode # "refresh"
        /\ \A p \in Procs : proc[p].pc # "created"
        /\ mode = "up" => \A l \in bitmap : \/ \E o \in Rows : row[o] = l
                                            \/ \E p \in Procs : Owner(p) /\ proc[p].lock = l
-----------------------------------------------------------------------------
(* Types, and who runs when *)

\* A process that goes to another step keeps its object and its lock.
LEMMA Goto ==
    ASSUME TypeOK, NEW p \in Procs, NEW s \in PCs
    PROVE  /\ [proc EXCEPT ![p].pc = s] \in [Procs -> ProcType]
           /\ [proc[p] EXCEPT !.pc = s] \in ProcType
<1>1. proc[p] \in ProcType
  BY Zenon DEF TypeOK
<1>2. [proc[p] EXCEPT !.pc = s] \in ProcType
  BY Zenon, <1>1 DEF ProcType
<1> QED BY Zenon, <1>2 DEF TypeOK

\* ... and so do all the others.
LEMMA GotoSame ==
    ASSUME TypeOK, NEW p \in Procs, NEW s \in PCs, proc' = [proc EXCEPT ![p].pc = s]
    PROVE  /\ proc'[p].pc = s /\ proc'[p].obj = proc[p].obj /\ proc'[p].lock = proc[p].lock
           /\ \A q \in Procs \ {p} : proc'[q] = proc[q]
  BY Zenon DEF TypeOK, ProcType

\* A process may always give up what it does.
LEMMA IdleType == Idle \in ProcType
  BY Zenon DEF Idle, ProcType, PCs

\* The variables stay in range.
LEMMA NextTypeOK == Busy /\ TypeOK /\ [Next]_vars => TypeOK'
<1> SUFFICES ASSUME Busy, TypeOK, [Next]_vars PROVE TypeOK'
  BY Zenon
<1> USE ObjectAssumption, IdleType DEF TypeOK, Objects, Rows, ToDo, exclusive
<1>1. CASE UNCHANGED vars
  BY Zenon, <1>1 DEF vars
<1>2. ASSUME NEW p \in Procs, NEW o \in Objects, AllocateLock(p, o) PROVE TypeOK'
  <2>1. proc' \in [Procs -> ProcType]
    BY <1>2 DEF AllocateLock, ProcType, PCs
  <2> QED BY Zenon, <1>2, <2>1 DEF AllocateLock
<1>3. ASSUME NEW p \in Procs, NEW o \in Objects, Load(p, o) PROVE TypeOK'
  <2>1. proc' \in [Procs -> ProcType]
    BY Zenon, <1>3 DEF Load, ProcType, PCs
  <2> QED BY Zenon, <1>3, <2>1 DEF Load
<1>4. ASSUME NEW p \in Procs, AddToState(p) PROVE TypeOK'
  <2>1. proc' \in [Procs -> ProcType]
    BY Zenon, <1>4, Goto DEF AddToState, PCs
  <2>2. proc[p].obj \in Objects /\ proc[p].lock \in Locks
    BY <1>4 DEF AddToState, Busy, Idle
  <2> QED BY Zenon, <1>4, <2>1, <2>2 DEF AddToState
<1>5. ASSUME NEW p \in Procs, EventWritten(p) PROVE TypeOK'
  BY Zenon, <1>5 DEF EventWritten
<1>6. ASSUME NEW p \in Procs, CreateFails(p) PROVE TypeOK'
  BY Zenon, <1>6 DEF CreateFails
<1>7. ASSUME NEW p \in Procs, LockForRemoval(p) PROVE TypeOK'
  <2>1. CASE row[proc[p].obj] = Nil
    BY <1>7, <2>1 DEF LockForRemoval
  <2>2. CASE ~(row[proc[p].obj] = Nil)
    <3>1. proc' = [proc EXCEPT ![p].pc = "remove"]
      BY Zenon, <1>7, <2>2 DEF LockForRemoval
    <3>2. proc' \in [Procs -> ProcType]
      BY Zenon, <3>1, Goto DEF PCs
    <3> QED BY <1>7, <2>2, <3>2 DEF LockForRemoval
  <2> QED BY Zenon, <2>1, <2>2
<1>8. ASSUME NEW p \in Procs, ExecWindow(p) PROVE TypeOK'
  <2>1. proc' \in [Procs -> ProcType]
    BY Zenon, <1>8, Goto DEF ExecWindow, PCs
  <2> QED BY Zenon, <1>8, <2>1 DEF ExecWindow
<1>9. ASSUME NEW p \in Procs, Relock(p) PROVE TypeOK'
  <2>1. proc' \in [Procs -> ProcType]
    BY Zenon, <1>9, Goto DEF Relock, PCs
  <2> QED BY Zenon, <1>9, <2>1 DEF Relock
<1>10. ASSUME NEW p \in Procs, RemoveFromState(p) PROVE TypeOK'
  <2>1. proc' \in [Procs -> ProcType]
    BY Zenon, <1>10, Goto DEF RemoveFromState, PCs
  <2> QED BY Zenon, <1>10, <2>1 DEF RemoveFromState
<1>11. ASSUME NEW p \in Procs, RemovalFails(p) PROVE TypeOK'
  BY Zenon, <1>11 DEF RemovalFails
<1>12. ASSUME NEW p \in Procs, Evict(p) PROVE TypeOK'
  BY Zenon, <1>12 DEF Evict
<1>13. ASSUME NEW p \in Procs, Free(p) PROVE TypeOK'
  <2>1. CASE proc[p].obj \notin Vols
    BY <1>13, <2>1 DEF Free
  <2>2. CASE ~(proc[p].obj \notin Vols)
    <3>1. proc' = [proc EXCEPT ![p].pc = "teardown"]
      BY Zenon, <1>13, <2>2 DEF Free
    <3>2. proc' \in [Procs -> ProcType]
      BY Zenon, <3>1, Goto DEF PCs
    <3> QED BY Zenon, <1>13, <2>2, <3>2 DEF Free
  <2> QED BY Zenon, <2>1, <2>2
<1>14. ASSUME NEW p \in Procs, TeardownStorage(p) PROVE TypeOK'
  BY Zenon, <1>14 DEF TeardownStorage
<1>15. ASSUME NEW p \in Procs, Die(p) PROVE TypeOK'
  BY Zenon, <1>15 DEF Die
<1>16. CASE Reboot
  BY Zenon, <1>16 DEF Reboot, StartRefresh
<1>17. CASE RefreshDone
  BY Zenon, <1>17 DEF RefreshDone
<1>18. CASE RefreshDies
  BY Zenon, <1>18 DEF RefreshDies
<1>19. CASE Renumber
  BY Zenon, <1>19 DEF Renumber
<1>20. CASE RenumberEnds
  BY Zenon, <1>20 DEF RenumberEnds
<1>21. ASSUME NEW c \in Ctrs, RefreshContainer(c) PROVE TypeOK'
  BY <1>21 DEF RefreshContainer
<1>22. ASSUME NEW o \in Objects, RefreshRest(o) PROVE TypeOK'
  BY Zenon, <1>22 DEF RefreshRest
<1>23. ASSUME NEW o \in Objects, RenumberObject(o) PROVE TypeOK'
  BY <1>23 DEF RenumberObject
<1> QED BY Zenon, <1>1, <1>2, <1>3, <1>4, <1>5, <1>6, <1>7, <1>8, <1>9, <1>10,
           <1>11, <1>12, <1>13, <1>14, <1>15, <1>16, <1>17, <1>18, <1>19,
           <1>20, <1>21, <1>22, <1>23 DEF Next
\* A refresh starts with every process gone, a renumbering waits until all are idle.
LEMMA NextAlone == TypeOK /\ Alone /\ [Next]_vars => Alone'
<1> SUFFICES ASSUME TypeOK, Alone, [Next]_vars PROVE Alone'
  BY Zenon
<1> USE ObjectAssumption
    DEF TypeOK, Alone, Objects, Rows, ToDo, Idle, exclusive, ProcType, PCs
<1>1. CASE UNCHANGED vars
  BY Zenon, <1>1 DEF vars
<1>2. ASSUME NEW p \in Procs, NEW o \in Objects, AllocateLock(p, o) PROVE Alone'
  BY Zenon, <1>2 DEF AllocateLock
<1>3. ASSUME NEW p \in Procs, NEW o \in Objects, Load(p, o) PROVE Alone'
  BY Zenon, <1>3 DEF Load
<1>4. ASSUME NEW p \in Procs, AddToState(p) PROVE Alone'
  BY <1>4 DEF AddToState
<1>5. ASSUME NEW p \in Procs, EventWritten(p) PROVE Alone'
  BY Zenon, <1>5 DEF EventWritten
<1>6. ASSUME NEW p \in Procs, CreateFails(p) PROVE Alone'
  BY Zenon, <1>6 DEF CreateFails
<1>7. ASSUME NEW p \in Procs, LockForRemoval(p) PROVE Alone'
  BY <1>7 DEF LockForRemoval
<1>8. ASSUME NEW p \in Procs, ExecWindow(p) PROVE Alone'
  BY <1>8 DEF ExecWindow
<1>9. ASSUME NEW p \in Procs, Relock(p) PROVE Alone'
  BY <1>9 DEF Relock
<1>10. ASSUME NEW p \in Procs, RemoveFromState(p) PROVE Alone'
  BY <1>10 DEF RemoveFromState
<1>11. ASSUME NEW p \in Procs, RemovalFails(p) PROVE Alone'
  BY Zenon, <1>11 DEF RemovalFails
<1>12. ASSUME NEW p \in Procs, Evict(p) PROVE Alone'
  BY Zenon, <1>12 DEF Evict
<1>13. ASSUME NEW p \in Procs, Free(p) PROVE Alone'
  BY <1>13 DEF Free
<1>14. ASSUME NEW p \in Procs, TeardownStorage(p) PROVE Alone'
  BY Zenon, <1>14 DEF TeardownStorage
<1>15. ASSUME NEW p \in Procs, Die(p) PROVE Alone'
  BY Zenon, <1>15 DEF Die
<1>16. CASE Reboot
  BY Zenon, <1>16 DEF Reboot, StartRefresh
<1>17. CASE RefreshDone
  BY Zenon, <1>17 DEF RefreshDone
<1>18. CASE RefreshDies
  BY Zenon, <1>18 DEF RefreshDies
<1>19. CASE Renumber
  BY Zenon, <1>19 DEF Renumber
<1>20. CASE RenumberEnds
  BY Zenon, <1>20 DEF RenumberEnds
<1>21. ASSUME NEW c \in Ctrs, RefreshContainer(c) PROVE Alone'
  BY Zenon, <1>21 DEF RefreshContainer
<1>22. ASSUME NEW o \in Objects, RefreshRest(o) PROVE Alone'
  BY Zenon, <1>22 DEF RefreshRest
<1>23. ASSUME NEW o \in Objects, RenumberObject(o) PROVE Alone'
  BY Zenon, <1>23 DEF RenumberObject
<1> QED BY Zenon, <1>1, <1>2, <1>3, <1>4, <1>5, <1>6, <1>7, <1>8, <1>9, <1>10,
           <1>11, <1>12, <1>13, <1>14, <1>15, <1>16, <1>17, <1>18, <1>19,
           <1>20, <1>21, <1>22, <1>23 DEF Next
\* What a process works on is set when it stops being idle.
LEMMA NextBusy == TypeOK /\ Alone /\ Busy /\ [Next]_vars => Busy'
<1> SUFFICES ASSUME TypeOK, Alone, Busy, [Next]_vars PROVE Busy'
  BY Zenon
<1> USE ObjectAssumption
    DEF TypeOK, Busy, Objects, Rows, ToDo, Idle, exclusive, ProcType, PCs
<1>1. CASE UNCHANGED vars
  BY Zenon, <1>1 DEF vars
<1>2. ASSUME NEW p \in Procs, NEW o \in Objects, AllocateLock(p, o) PROVE Busy'
  BY <1>2 DEF AllocateLock
<1>3. ASSUME NEW p \in Procs, NEW o \in Objects, Load(p, o) PROVE Busy'
  BY Zenon, <1>3 DEF Load
<1>4. ASSUME NEW p \in Procs, AddToState(p) PROVE Busy'
  BY <1>4 DEF AddToState
<1>5. ASSUME NEW p \in Procs, EventWritten(p) PROVE Busy'
  BY Zenon, <1>5 DEF EventWritten
<1>6. ASSUME NEW p \in Procs, CreateFails(p) PROVE Busy'
  BY Zenon, <1>6 DEF CreateFails
<1>7. ASSUME NEW p \in Procs, LockForRemoval(p) PROVE Busy'
  <2>1. proc[p] # Idle /\ UNCHANGED <<row, used, mode, faults>>
    BY <1>7 DEF LockForRemoval, exclusive
  <2>2. CASE row[proc[p].obj] = Nil
    <3>1. proc'[p] = Idle /\ \A q \in Procs \ {p} : proc'[q] = proc[q]
      BY <1>7, <2>2 DEF LockForRemoval
    <3> HIDE DEF TypeOK, ProcType, PCs
    <3> QED BY Zenon, <2>1, <3>1
  <2>3. CASE ~(row[proc[p].obj] = Nil)
    <3>1. proc' = [proc EXCEPT ![p].pc = "remove"] /\ proc[p].pc = "load"
      BY Zenon, <1>7, <2>3 DEF LockForRemoval
    <3>2. /\ proc'[p].pc = "remove" /\ proc'[p].obj = proc[p].obj /\ proc'[p].lock = proc[p].lock
          /\ \A q \in Procs \ {p} : proc'[q] = proc[q]
      BY Zenon, <3>1, GotoSame
    <3> HIDE DEF TypeOK, ProcType, PCs
    <3> QED BY Zenon, <2>1, <3>1, <3>2
  <2> QED BY Zenon, <2>2, <2>3
<1>8. ASSUME NEW p \in Procs, ExecWindow(p) PROVE Busy'
  BY <1>8 DEF ExecWindow
<1>9. ASSUME NEW p \in Procs, Relock(p) PROVE Busy'
  BY <1>9 DEF Relock
<1>10. ASSUME NEW p \in Procs, RemoveFromState(p) PROVE Busy'
  BY <1>10 DEF RemoveFromState
<1>11. ASSUME NEW p \in Procs, RemovalFails(p) PROVE Busy'
  BY Zenon, <1>11 DEF RemovalFails
<1>12. ASSUME NEW p \in Procs, Evict(p) PROVE Busy'
  BY Zenon, <1>12 DEF Evict
<1>13. ASSUME NEW p \in Procs, Free(p) PROVE Busy'
  BY <1>13 DEF Free
<1>14. ASSUME NEW p \in Procs, TeardownStorage(p) PROVE Busy'
  BY Zenon, <1>14 DEF TeardownStorage
<1>15. ASSUME NEW p \in Procs, Die(p) PROVE Busy'
  BY Zenon, <1>15 DEF Die
<1>16. CASE Reboot
  BY Zenon, <1>16 DEF Reboot, StartRefresh
<1>17. CASE RefreshDone
  BY Zenon, <1>17 DEF RefreshDone
<1>18. CASE RefreshDies
  BY Zenon, <1>18 DEF RefreshDies
<1>19. CASE Renumber
  BY Zenon, <1>19 DEF Renumber
<1>20. CASE RenumberEnds
  BY Zenon, <1>20 DEF RenumberEnds
<1>21. ASSUME NEW c \in Ctrs, RefreshContainer(c) PROVE Busy'
  BY Zenon, <1>21 DEF RefreshContainer
<1>22. ASSUME NEW o \in Objects, RefreshRest(o) PROVE Busy'
  BY Zenon, <1>22 DEF RefreshRest
<1>23. ASSUME NEW o \in Objects, RenumberObject(o) PROVE Busy'
  BY Zenon, <1>23 DEF RenumberObject
<1> QED BY Zenon, <1>1, <1>2, <1>3, <1>4, <1>5, <1>6, <1>7, <1>8, <1>9, <1>10,
           <1>11, <1>12, <1>13, <1>14, <1>15, <1>16, <1>17, <1>18, <1>19,
           <1>20, <1>21, <1>22, <1>23 DEF Next
\* Nobody takes the mutex of a process between its Lock and its Unlock.
LEMMA NextHolds == TypeOK /\ Busy /\ Holds /\ [Next]_vars => Holds'
<1> SUFFICES ASSUME TypeOK, Busy, Holds, [Next]_vars PROVE Holds'
  BY Zenon
<1> USE ObjectAssumption
    DEF TypeOK, Busy, Holds, Objects, Rows, ToDo, Idle, exclusive, ProcType, PCs
<1>1. CASE UNCHANGED vars
  BY Zenon, <1>1 DEF vars
<1>2. ASSUME NEW p \in Procs, NEW o \in Objects, AllocateLock(p, o) PROVE Holds'
  BY <1>2 DEF AllocateLock
<1>3. ASSUME NEW p \in Procs, NEW o \in Objects, Load(p, o) PROVE Holds'
  BY Zenon, <1>3 DEF Load
<1>4. ASSUME NEW p \in Procs, AddToState(p) PROVE Holds'
  BY <1>4 DEF AddToState
<1>5. ASSUME NEW p \in Procs, EventWritten(p) PROVE Holds'
  BY Zenon, <1>5 DEF EventWritten
<1>6. ASSUME NEW p \in Procs, CreateFails(p) PROVE Holds'
  BY Zenon, <1>6 DEF CreateFails
<1>7. ASSUME NEW p \in Procs, LockForRemoval(p) PROVE Holds'
  BY <1>7 DEF LockForRemoval
<1>8. ASSUME NEW p \in Procs, ExecWindow(p) PROVE Holds'
  BY <1>8 DEF ExecWindow
<1>9. ASSUME NEW p \in Procs, Relock(p) PROVE Holds'
  BY <1>9 DEF Relock
<1>10. ASSUME NEW p \in Procs, RemoveFromState(p) PROVE Holds'
  BY <1>10 DEF RemoveFromState
<1>11. ASSUME NEW p \in Procs, RemovalFails(p) PROVE Holds'
  BY <1>11 DEF RemovalFails
<1>12. ASSUME NEW p \in Procs, Evict(p) PROVE Holds'
  BY <1>12 DEF Evict
<1>13. ASSUME NEW p \in Procs, Free(p) PROVE Holds'
  BY <1>13 DEF Free
<1>14. ASSUME NEW p \in Procs, TeardownStorage(p) PROVE Holds'
  BY <1>14 DEF TeardownStorage
<1>15. ASSUME NEW p \in Procs, Die(p) PROVE Holds'
  BY <1>15 DEF Die
<1>16. CASE Reboot
  BY Zenon, <1>16 DEF Reboot, StartRefresh
<1>17. CASE RefreshDone
  BY Zenon, <1>17 DEF RefreshDone
<1>18. CASE RefreshDies
  BY Zenon, <1>18 DEF RefreshDies
<1>19. CASE Renumber
  BY Zenon, <1>19 DEF Renumber
<1>20. CASE RenumberEnds
  BY Zenon, <1>20 DEF RenumberEnds
<1>21. ASSUME NEW c \in Ctrs, RefreshContainer(c) PROVE Holds'
  BY Zenon, <1>21 DEF RefreshContainer
<1>22. ASSUME NEW o \in Objects, RefreshRest(o) PROVE Holds'
  BY Zenon, <1>22 DEF RefreshRest
<1>23. ASSUME NEW o \in Objects, RenumberObject(o) PROVE Holds'
  BY Zenon, <1>23 DEF RenumberObject
<1> QED BY Zenon, <1>1, <1>2, <1>3, <1>4, <1>5, <1>6, <1>7, <1>8, <1>9, <1>10,
           <1>11, <1>12, <1>13, <1>14, <1>15, <1>16, <1>17, <1>18, <1>19,
           <1>20, <1>21, <1>22, <1>23 DEF Next
\* Each object that renumbering visits gets a lock that no object has by then.
LEMMA NextRenumbered == TypeOK /\ Alone /\ Renumbered /\ [Next]_vars => Renumbered'
<1> SUFFICES ASSUME TypeOK, Alone, Renumbered, [Next]_vars PROVE Renumbered'
  BY Zenon
<1> USE ObjectAssumption
    DEF TypeOK, Alone, Renumbered, Objects, Rows, ToDo, Idle, exclusive, ProcType,
        PCs
<1>1. CASE UNCHANGED vars
  BY <1>1 DEF vars
<1>2. ASSUME NEW p \in Procs, NEW o \in Objects, AllocateLock(p, o) PROVE Renumbered'
  BY Zenon, <1>2 DEF AllocateLock
<1>3. ASSUME NEW p \in Procs, NEW o \in Objects, Load(p, o) PROVE Renumbered'
  BY Zenon, <1>3 DEF Load
<1>4. ASSUME NEW p \in Procs, AddToState(p) PROVE Renumbered'
  BY <1>4 DEF AddToState
<1>5. ASSUME NEW p \in Procs, EventWritten(p) PROVE Renumbered'
  BY <1>5 DEF EventWritten
<1>6. ASSUME NEW p \in Procs, CreateFails(p) PROVE Renumbered'
  BY <1>6 DEF CreateFails
<1>7. ASSUME NEW p \in Procs, LockForRemoval(p) PROVE Renumbered'
  BY <1>7 DEF LockForRemoval
<1>8. ASSUME NEW p \in Procs, ExecWindow(p) PROVE Renumbered'
  BY <1>8 DEF ExecWindow
<1>9. ASSUME NEW p \in Procs, Relock(p) PROVE Renumbered'
  BY <1>9 DEF Relock
<1>10. ASSUME NEW p \in Procs, RemoveFromState(p) PROVE Renumbered'
  BY <1>10 DEF RemoveFromState
<1>11. ASSUME NEW p \in Procs, RemovalFails(p) PROVE Renumbered'
  BY <1>11 DEF RemovalFails
<1>12. ASSUME NEW p \in Procs, Evict(p) PROVE Renumbered'
  BY <1>12 DEF Evict
<1>13. ASSUME NEW p \in Procs, Free(p) PROVE Renumbered'
  BY <1>13 DEF Free
<1>14. ASSUME NEW p \in Procs, TeardownStorage(p) PROVE Renumbered'
  BY <1>14 DEF TeardownStorage
<1>15. ASSUME NEW p \in Procs, Die(p) PROVE Renumbered'
  BY Zenon, <1>15 DEF Die
<1>16. CASE Reboot
  BY Zenon, <1>16 DEF Reboot, StartRefresh
<1>17. CASE RefreshDone
  BY Zenon, <1>17 DEF RefreshDone
<1>18. CASE RefreshDies
  BY Zenon, <1>18 DEF RefreshDies
<1>19. CASE Renumber
  BY <1>19 DEF Renumber
<1>20. CASE RenumberEnds
  BY Zenon, <1>20 DEF RenumberEnds
<1>21. ASSUME NEW c \in Ctrs, RefreshContainer(c) PROVE Renumbered'
  BY Zenon, <1>21 DEF RefreshContainer
<1>22. ASSUME NEW o \in Objects, RefreshRest(o) PROVE Renumbered'
  BY Zenon, <1>22 DEF RefreshRest
<1>23. ASSUME NEW o \in Objects, RenumberObject(o) PROVE Renumbered'
  BY <1>23 DEF RenumberObject
<1> QED BY Zenon, <1>1, <1>2, <1>3, <1>4, <1>5, <1>6, <1>7, <1>8, <1>9, <1>10,
           <1>11, <1>12, <1>13, <1>14, <1>15, <1>16, <1>17, <1>18, <1>19,
           <1>20, <1>21, <1>22, <1>23 DEF Next
\* Unless a volume's name is used again, no step makes a row that a process has
\* read into the row of another object, or brings it back.
LEMMA NextStable ==
    TypeOK /\ Alone /\ Busy /\ Renumbered /\ Stable /\ [Next]_vars
    => Stable'
<1> SUFFICES ASSUME TypeOK, Alone, Busy, Renumbered, Stable, [Next]_vars PROVE Stable'
  BY Zenon
<1> USE ObjectAssumption
    DEF TypeOK, Alone, Busy, Stable, Objects, Rows, ToDo, Idle, exclusive,
        ProcType, PCs
<1>1. CASE UNCHANGED vars
  BY Zenon, <1>1 DEF vars
<1>2. ASSUME NEW p \in Procs, NEW o \in Objects, AllocateLock(p, o) PROVE Stable'
  BY <1>2 DEF AllocateLock
<1>3. ASSUME NEW p \in Procs, NEW o \in Objects, Load(p, o) PROVE Stable'
  BY <1>3 DEF Load
<1>4. ASSUME NEW p \in Procs, AddToState(p) PROVE Stable'
  BY <1>4 DEF AddToState, MayName
<1>5. ASSUME NEW p \in Procs, EventWritten(p) PROVE Stable'
  BY <1>5 DEF EventWritten
<1>6. ASSUME NEW p \in Procs, CreateFails(p) PROVE Stable'
  BY <1>6 DEF CreateFails
<1>7. ASSUME NEW p \in Procs, LockForRemoval(p) PROVE Stable'
  <2>1. proc[p] # Idle /\ UNCHANGED <<row, used, mode, faults>>
    BY <1>7 DEF LockForRemoval, exclusive
  <2>2. CASE row[proc[p].obj] = Nil
    <3>1. proc'[p] = Idle /\ \A q \in Procs \ {p} : proc'[q] = proc[q]
      BY <1>7, <2>2 DEF LockForRemoval
    <3> HIDE DEF TypeOK, ProcType, PCs, Alone, Rows, ToDo
    <3> QED BY <2>1, <3>1
  <2>3. CASE ~(row[proc[p].obj] = Nil)
    <3>1. proc' = [proc EXCEPT ![p].pc = "remove"] /\ proc[p].pc = "load"
      BY Zenon, <1>7, <2>3 DEF LockForRemoval
    <3>2. /\ proc'[p].pc = "remove" /\ proc'[p].obj = proc[p].obj /\ proc'[p].lock = proc[p].lock
          /\ \A q \in Procs \ {p} : proc'[q] = proc[q]
      BY Zenon, <3>1, GotoSame
    <3> HIDE DEF TypeOK, ProcType, PCs, Alone, Rows, ToDo
    <3> QED BY <2>1, <3>1, <3>2
  <2> QED BY Zenon, <2>2, <2>3
<1>8. ASSUME NEW p \in Procs, ExecWindow(p) PROVE Stable'
  BY <1>8 DEF ExecWindow
<1>9. ASSUME NEW p \in Procs, Relock(p) PROVE Stable'
  BY <1>9 DEF Relock
<1>10. ASSUME NEW p \in Procs, RemoveFromState(p) PROVE Stable'
  BY <1>10 DEF RemoveFromState
<1>11. ASSUME NEW p \in Procs, RemovalFails(p) PROVE Stable'
  BY <1>11 DEF RemovalFails
<1>12. ASSUME NEW p \in Procs, Evict(p) PROVE Stable'
  BY <1>12 DEF Evict
<1>13. ASSUME NEW p \in Procs, Free(p) PROVE Stable'
  BY SMTT(30), <1>13 DEF Free
<1>14. ASSUME NEW p \in Procs, TeardownStorage(p) PROVE Stable'
  BY <1>14 DEF TeardownStorage
<1>15. ASSUME NEW p \in Procs, Die(p) PROVE Stable'
  BY <1>15 DEF Die
<1>16. CASE Reboot
  BY Zenon, <1>16 DEF Reboot, StartRefresh
<1>17. CASE RefreshDone
  BY Zenon, <1>17 DEF RefreshDone
<1>18. CASE RefreshDies
  BY Zenon, <1>18 DEF RefreshDies
<1>19. CASE Renumber
  BY Zenon, <1>19 DEF Renumber
<1>20. CASE RenumberEnds
  BY Zenon, <1>20 DEF RenumberEnds
<1>21. ASSUME NEW c \in Ctrs, RefreshContainer(c) PROVE Stable'
  BY <1>21 DEF RefreshContainer
<1>22. ASSUME NEW o \in Objects, RefreshRest(o) PROVE Stable'
  BY Zenon, <1>22 DEF RefreshRest
<1>23. ASSUME NEW o \in Objects, RenumberObject(o) PROVE Stable'
  <2>1. UNCHANGED <<proc, used, faults>> /\ \A q \in Procs : proc[q] = Idle
    BY Zenon, <1>23 DEF RenumberObject
  <2>2. \A r \in Objects : row'[r] # Nil => row[r] # Nil
    BY <1>23 DEF RenumberObject, Renumbered
  <2> QED BY <2>1, <2>2
<1> QED BY Zenon, <1>1, <1>2, <1>3, <1>4, <1>5, <1>6, <1>7, <1>8, <1>9, <1>10,
           <1>11, <1>12, <1>13, <1>14, <1>15, <1>16, <1>17, <1>18, <1>19,
           <1>20, <1>21, <1>22, <1>23 DEF Next
\* What Stable says of a removal's row, without windows in which the row may go.
LEMMA NextRemoverHasRow ==
    BaseInv /\ Stable /\ RemoverHasRow /\ [Next]_vars
    => RemoverHasRow'
<1> SUFFICES ASSUME BaseInv, Stable, RemoverHasRow, [Next]_vars PROVE RemoverHasRow'
  BY Zenon
<1> USE ObjectAssumption
    DEF BaseInv, TypeOK, Busy, Alone, Holds, Stable, Benign, RemoverHasRow,
        Objects, Rows, ToDo, Idle, exclusive, ProcType, PCs
<1>1. CASE UNCHANGED vars
  BY Zenon, <1>1 DEF vars
<1>2. ASSUME NEW p \in Procs, NEW o \in Objects, AllocateLock(p, o) PROVE RemoverHasRow'
  BY <1>2 DEF AllocateLock
<1>3. ASSUME NEW p \in Procs, NEW o \in Objects, Load(p, o) PROVE RemoverHasRow'
  BY <1>3 DEF Load
<1>4. ASSUME NEW p \in Procs, AddToState(p) PROVE RemoverHasRow'
  BY <1>4 DEF AddToState
<1>5. ASSUME NEW p \in Procs, EventWritten(p) PROVE RemoverHasRow'
  BY Zenon, <1>5 DEF EventWritten
<1>6. ASSUME NEW p \in Procs, CreateFails(p) PROVE RemoverHasRow'
  BY <1>6 DEF CreateFails
<1>7. ASSUME NEW p \in Procs, LockForRemoval(p) PROVE RemoverHasRow'
  BY <1>7 DEF LockForRemoval
<1>8. ASSUME NEW p \in Procs, ExecWindow(p) PROVE RemoverHasRow'
  BY Zenon, <1>8 DEF ExecWindow
<1>9. ASSUME NEW p \in Procs, Relock(p) PROVE RemoverHasRow'
  BY Zenon, <1>9 DEF Relock
<1>10. ASSUME NEW p \in Procs, RemoveFromState(p) PROVE RemoverHasRow'
  BY <1>10 DEF RemoveFromState
<1>11. ASSUME NEW p \in Procs, RemovalFails(p) PROVE RemoverHasRow'
  BY <1>11 DEF RemovalFails
<1>12. ASSUME NEW p \in Procs, Evict(p) PROVE RemoverHasRow'
  BY <1>12 DEF Evict
<1>13. ASSUME NEW p \in Procs, Free(p) PROVE RemoverHasRow'
  BY <1>13 DEF Free
<1>14. ASSUME NEW p \in Procs, TeardownStorage(p) PROVE RemoverHasRow'
  BY <1>14 DEF TeardownStorage
<1>15. ASSUME NEW p \in Procs, Die(p) PROVE RemoverHasRow'
  BY <1>15 DEF Die
<1>16. CASE Reboot
  BY Zenon, <1>16 DEF Reboot, StartRefresh
<1>17. CASE RefreshDone
  BY <1>17 DEF RefreshDone
<1>18. CASE RefreshDies
  BY Zenon, <1>18 DEF RefreshDies
<1>19. CASE Renumber
  BY Zenon, <1>19 DEF Renumber
<1>20. CASE RenumberEnds
  BY <1>20 DEF RenumberEnds
<1>21. ASSUME NEW c \in Ctrs, RefreshContainer(c) PROVE RemoverHasRow'
  BY Zenon, <1>21 DEF RefreshContainer
<1>22. ASSUME NEW o \in Objects, RefreshRest(o) PROVE RemoverHasRow'
  BY Zenon, <1>22 DEF RefreshRest
<1>23. ASSUME NEW o \in Objects, RenumberObject(o) PROVE RemoverHasRow'
  BY Zenon, <1>23 DEF RenumberObject
<1> QED BY Zenon, <1>1, <1>2, <1>3, <1>4, <1>5, <1>6, <1>7, <1>8, <1>9, <1>10,
           <1>11, <1>12, <1>13, <1>14, <1>15, <1>16, <1>17, <1>18, <1>19,
           <1>20, <1>21, <1>22, <1>23 DEF Next
\* A row gets the lock of an owner; renumbering ends with rows that have different
\* locks.
LEMMA NextRowsApart ==
    BaseInv /\ Renumbered /\ OwnersApart /\ RowsApart /\ [Next]_vars
    => RowsApart'
<1> SUFFICES ASSUME BaseInv, Renumbered, OwnersApart, RowsApart, [Next]_vars
             PROVE  RowsApart'
  BY Zenon
<1> USE ObjectAssumption
    DEF BaseInv, TypeOK, Busy, Alone, Owner, Benign, RowsApart, Objects, Rows,
        ToDo, Idle, exclusive, ProcType, PCs
<1>1. CASE UNCHANGED vars
  BY Zenon, <1>1 DEF vars
<1>2. ASSUME NEW p \in Procs, NEW o \in Objects, AllocateLock(p, o) PROVE RowsApart'
  BY Zenon, <1>2 DEF AllocateLock
<1>3. ASSUME NEW p \in Procs, NEW o \in Objects, Load(p, o) PROVE RowsApart'
  BY Zenon, <1>3 DEF Load
<1>4. ASSUME NEW p \in Procs, AddToState(p) PROVE RowsApart'
  BY <1>4 DEF AddToState, OwnersApart
<1>5. ASSUME NEW p \in Procs, EventWritten(p) PROVE RowsApart'
  BY Zenon, <1>5 DEF EventWritten
<1>6. ASSUME NEW p \in Procs, CreateFails(p) PROVE RowsApart'
  BY Zenon, <1>6 DEF CreateFails
<1>7. ASSUME NEW p \in Procs, LockForRemoval(p) PROVE RowsApart'
  BY Zenon, <1>7 DEF LockForRemoval
<1>8. ASSUME NEW p \in Procs, ExecWindow(p) PROVE RowsApart'
  BY Zenon, <1>8 DEF ExecWindow
<1>9. ASSUME NEW p \in Procs, Relock(p) PROVE RowsApart'
  BY Zenon, <1>9 DEF Relock
<1>10. ASSUME NEW p \in Procs, RemoveFromState(p) PROVE RowsApart'
  BY <1>10 DEF RemoveFromState
<1>11. ASSUME NEW p \in Procs, RemovalFails(p) PROVE RowsApart'
  BY Zenon, <1>11 DEF RemovalFails
<1>12. ASSUME NEW p \in Procs, Evict(p) PROVE RowsApart'
  BY Zenon, <1>12 DEF Evict
<1>13. ASSUME NEW p \in Procs, Free(p) PROVE RowsApart'
  BY Zenon, <1>13 DEF Free
<1>14. ASSUME NEW p \in Procs, TeardownStorage(p) PROVE RowsApart'
  BY Zenon, <1>14 DEF TeardownStorage
<1>15. ASSUME NEW p \in Procs, Die(p) PROVE RowsApart'
  BY Zenon, <1>15 DEF Die
<1>16. CASE Reboot
  BY <1>16 DEF Reboot, StartRefresh
<1>17. CASE RefreshDone
  BY Zenon, <1>17 DEF RefreshDone
<1>18. CASE RefreshDies
  BY Zenon, <1>18 DEF RefreshDies
<1>19. CASE Renumber
  BY Zenon, <1>19 DEF Renumber
<1>20. CASE RenumberEnds
  BY <1>20 DEF RenumberEnds, Renumbered
<1>21. ASSUME NEW c \in Ctrs, RefreshContainer(c) PROVE RowsApart'
  BY <1>21 DEF RefreshContainer
<1>22. ASSUME NEW o \in Objects, RefreshRest(o) PROVE RowsApart'
  BY Zenon, <1>22 DEF RefreshRest
<1>23. ASSUME NEW o \in Objects, RenumberObject(o) PROVE RowsApart'
  BY Zenon, <1>23 DEF RenumberObject
<1> QED BY Zenon, <1>1, <1>2, <1>3, <1>4, <1>5, <1>6, <1>7, <1>8, <1>9, <1>10,
           <1>11, <1>12, <1>13, <1>14, <1>15, <1>16, <1>17, <1>18, <1>19,
           <1>20, <1>21, <1>22, <1>23 DEF Next
\* Creation takes a free lock, and removal one that its row alone named.
LEMMA NextOwnersApart ==
    BaseInv /\ RemoverHasRow /\ RowsApart /\ RowsAllocated /\ OwnersApart /\ [Next]_vars
    => OwnersApart'
<1> SUFFICES ASSUME BaseInv, RemoverHasRow, RowsApart, RowsAllocated, OwnersApart, [Next]_vars
             PROVE  OwnersApart'
  BY Zenon
<1>a1. /\ proc \in [Procs -> ProcType] /\ row \in [Objects -> Locks \cup {Nil}]
  BY Zenon DEF BaseInv, TypeOK
<1>a2. \A p \in Procs : proc[p] # Idle => mode = "up"
  BY Zenon DEF BaseInv, Alone
<1>a3. \A p \in Procs : proc[p] # Idle =>
          proc[p].obj \in Objects /\ proc[p].lock \in Locks
  BY Zenon DEF BaseInv, Busy
<1> USE ObjectAssumption, <1>a1, <1>a2, <1>a3
    DEF Owner, Benign, OwnersApart, Rows, ToDo, Idle, exclusive, ProcType
<1>1. CASE UNCHANGED vars
  BY Zenon, <1>1 DEF vars
<1>2. ASSUME NEW p \in Procs, NEW o \in Objects, AllocateLock(p, o) PROVE OwnersApart'
  <2>1. PICK l \in Locks \ bitmap :
          /\ bitmap' = bitmap \cup {l}
          /\ proc' = [proc EXCEPT ![p] = [pc |-> "create", obj |-> o, lock |-> l]]
    BY Zenon, <1>2 DEF AllocateLock
  <2>2. UNCHANGED <<row, mode, faults>>
    BY Zenon, <1>2 DEF AllocateLock
  <2>3. proc'[p].lock = l /\ \A q \in Procs \ {p} : proc'[q] = proc[q]
    BY Zenon, <2>1
  <2>4. Benign /\ mode = "up" => \A r \in Rows : row[r] # l
    BY Zenon DEF RowsAllocated
  <2> QED BY <2>1, <2>2, <2>3, <2>4
<1>3. ASSUME NEW p \in Procs, NEW o \in Objects, Load(p, o) PROVE OwnersApart'
  BY Zenon, <1>3 DEF Load
<1>4. ASSUME NEW p \in Procs, AddToState(p) PROVE OwnersApart'
  BY <1>4 DEF AddToState
<1>5. ASSUME NEW p \in Procs, EventWritten(p) PROVE OwnersApart'
  BY Zenon, <1>5 DEF EventWritten
<1>6. ASSUME NEW p \in Procs, CreateFails(p) PROVE OwnersApart'
  BY Zenon, <1>6 DEF CreateFails, RemoverHasRow
<1>7. ASSUME NEW p \in Procs, LockForRemoval(p) PROVE OwnersApart'
  BY <1>7 DEF LockForRemoval
<1>8. ASSUME NEW p \in Procs, ExecWindow(p) PROVE OwnersApart'
  BY Zenon, <1>8 DEF ExecWindow
<1>9. ASSUME NEW p \in Procs, Relock(p) PROVE OwnersApart'
  BY <1>9 DEF Relock
<1>10. ASSUME NEW p \in Procs, RemoveFromState(p) PROVE OwnersApart'
  <2> SUFFICES ASSUME Benign, mode = "up" PROVE OwnersApart'
    BY Zenon, <1>10 DEF RemoveFromState
  <2>1. /\ bitmap' = bitmap /\ row' = [row EXCEPT ![proc[p].obj] = Nil]
        /\ proc' = [proc EXCEPT ![p].pc = "free"]
    BY Zenon, <1>10 DEF RemoveFromState
  <2>2. /\ proc'[p].pc = "free" /\ proc'[p].lock = proc[p].lock
        /\ \A q \in Procs \ {p} : proc'[q] = proc[q]
    BY <2>1, GotoSame
  <2>3. /\ proc[p].obj \in Rows /\ proc[p].lock = row[proc[p].obj] /\ proc[p].lock \in bitmap
        /\ \A q \in Procs \ {p} : Owner(q) => proc[q].lock # proc[p].lock
    BY <1>10 DEF RemoveFromState, RemoverHasRow, RowsAllocated
  <2>4. \A o \in Rows' : o \in Rows /\ row'[o] = row[o] /\ row[o] # proc[p].lock
    BY Zenon, <2>1, <2>3 DEF RowsApart
  <2> QED BY <2>1, <2>2, <2>3, <2>4
<1>11. ASSUME NEW p \in Procs, RemovalFails(p) PROVE OwnersApart'
  BY Zenon, <1>11 DEF RemovalFails
<1>12. ASSUME NEW p \in Procs, Evict(p) PROVE OwnersApart'
  BY Zenon, <1>12 DEF Evict
<1>13. ASSUME NEW p \in Procs, Free(p) PROVE OwnersApart'
  BY <1>13 DEF Free
<1>14. ASSUME NEW p \in Procs, TeardownStorage(p) PROVE OwnersApart'
  BY Zenon, <1>14 DEF TeardownStorage
<1>15. ASSUME NEW p \in Procs, Die(p) PROVE OwnersApart'
  BY Zenon, <1>15 DEF Die
<1>16. CASE Reboot
  BY Zenon, <1>16 DEF Reboot, StartRefresh
<1>17. CASE RefreshDone
  <2>1. proc' = proc /\ \A q \in Procs : proc[q] = Idle
    BY Zenon, <1>17 DEF RefreshDone
  <2>2. \A q \in Procs : ~Owner(q)'
    BY <2>1
  <2> HIDE DEF Owner, Rows, ToDo, Benign, ProcType
  <2> QED BY Zenon, <2>2
<1>18. CASE RefreshDies
  BY Zenon, <1>18 DEF RefreshDies
<1>19. CASE Renumber
  BY Zenon, <1>19 DEF Renumber
<1>20. CASE RenumberEnds
  <2>1. proc' = proc /\ \A q \in Procs : proc[q] = Idle
    BY Zenon, <1>20 DEF RenumberEnds
  <2>2. \A q \in Procs : ~Owner(q)'
    BY <2>1
  <2> HIDE DEF Owner, Rows, ToDo, Benign, ProcType
  <2> QED BY Zenon, <2>2
<1>21. ASSUME NEW c \in Ctrs, RefreshContainer(c) PROVE OwnersApart'
  BY Zenon, <1>21 DEF RefreshContainer
<1>22. ASSUME NEW o \in Objects, RefreshRest(o) PROVE OwnersApart'
  BY Zenon, <1>22 DEF RefreshRest
<1>23. ASSUME NEW o \in Objects, RenumberObject(o) PROVE OwnersApart'
  BY Zenon, <1>23 DEF RenumberObject
<1> QED BY Zenon, <1>1, <1>2, <1>3, <1>4, <1>5, <1>6, <1>7, <1>8, <1>9, <1>10,
           <1>11, <1>12, <1>13, <1>14, <1>15, <1>16, <1>17, <1>18, <1>19,
           <1>20, <1>21, <1>22, <1>23 DEF Next
\* Only locks that no row names are freed, and refresh takes again what the rows
\* name.
LEMMA NextRowsAllocated ==
    BaseInv /\ Renumbered /\ RemoverHasRow /\ RowsApart /\ OwnersApart /\ RowsAllocated /\ [Next]_vars
    => RowsAllocated'
<1> SUFFICES ASSUME BaseInv, Renumbered, RemoverHasRow, RowsApart, OwnersApart, RowsAllocated, [Next]_vars
             PROVE  RowsAllocated'
  BY Zenon
<1>a1. /\ proc \in [Procs -> ProcType] /\ row \in [Objects -> Locks \cup {Nil}]
      /\ todo \in [Objects -> Locks \cup {Nil}]
  BY Zenon DEF BaseInv, TypeOK
<1>a2. \A p \in Procs : proc[p] # Idle => mode = "up"
  BY Zenon DEF BaseInv, Alone
<1>a3. \A p \in Procs : proc[p] # Idle =>
          proc[p].obj \in Objects /\ proc[p].lock \in Locks
  BY Zenon DEF BaseInv, Busy
<1> USE ObjectAssumption, <1>a1, <1>a2, <1>a3
    DEF Owner, Benign, RowsAllocated, Rows, ToDo, Idle, exclusive, ProcType
<1>1. CASE UNCHANGED vars
  BY Zenon, <1>1 DEF vars
<1>2. ASSUME NEW p \in Procs, NEW o \in Objects, AllocateLock(p, o) PROVE RowsAllocated'
  BY Zenon, <1>2 DEF AllocateLock
<1>3. ASSUME NEW p \in Procs, NEW o \in Objects, Load(p, o) PROVE RowsAllocated'
  BY Zenon, <1>3 DEF Load
<1>4. ASSUME NEW p \in Procs, AddToState(p) PROVE RowsAllocated'
  BY <1>4 DEF AddToState, OwnersApart
<1>5. ASSUME NEW p \in Procs, EventWritten(p) PROVE RowsAllocated'
  BY Zenon, <1>5 DEF EventWritten
<1>6. ASSUME NEW p \in Procs, CreateFails(p) PROVE RowsAllocated'
  <2> SUFFICES ASSUME Benign PROVE RowsAllocated'
    BY Zenon, <1>6 DEF CreateFails
  <2>1. mode = "up"
    BY <1>6 DEF CreateFails
  <2>2. Owner(p)
    BY Zenon, <1>6 DEF CreateFails, RemoverHasRow
  <2>3. \A o \in Rows : row[o] # proc[p].lock
    BY Zenon, <2>1, <2>2 DEF OwnersApart
  <2> QED BY Zenon, <1>6, <2>1, <2>3 DEF CreateFails
<1>7. ASSUME NEW p \in Procs, LockForRemoval(p) PROVE RowsAllocated'
  BY Zenon, <1>7 DEF LockForRemoval
<1>8. ASSUME NEW p \in Procs, ExecWindow(p) PROVE RowsAllocated'
  BY Zenon, <1>8 DEF ExecWindow
<1>9. ASSUME NEW p \in Procs, Relock(p) PROVE RowsAllocated'
  BY Zenon, <1>9 DEF Relock
<1>10. ASSUME NEW p \in Procs, RemoveFromState(p) PROVE RowsAllocated'
  BY <1>10 DEF RemoveFromState
<1>11. ASSUME NEW p \in Procs, RemovalFails(p) PROVE RowsAllocated'
  BY Zenon, <1>11 DEF RemovalFails
<1>12. ASSUME NEW p \in Procs, Evict(p) PROVE RowsAllocated'
  BY Zenon, <1>12 DEF Evict
<1>13. ASSUME NEW p \in Procs, Free(p) PROVE RowsAllocated'
  BY <1>13 DEF Free, OwnersApart
<1>14. ASSUME NEW p \in Procs, TeardownStorage(p) PROVE RowsAllocated'
  BY Zenon, <1>14 DEF TeardownStorage
<1>15. ASSUME NEW p \in Procs, Die(p) PROVE RowsAllocated'
  BY Zenon, <1>15 DEF Die
<1>16. CASE Reboot
  BY Zenon, <1>16 DEF Reboot, StartRefresh
<1>17. CASE RefreshDone
  BY Zenon, <1>17 DEF RefreshDone
<1>18. CASE RefreshDies
  BY Zenon, <1>18 DEF RefreshDies
<1>19. CASE Renumber
  BY Zenon, <1>19 DEF Renumber
<1>20. CASE RenumberEnds
  <2>1. Benign => \A o \in Objects : todo[o] = Nil
    BY Zenon, <1>20 DEF RenumberEnds
  <2>2. bitmap = {row[o] : o \in {r \in Rows : todo[r] = Nil}}
    BY Zenon, <1>20 DEF RenumberEnds, Renumbered
  <2>3. Benign => \A o \in Rows : row[o] \in bitmap
    BY Zenon, <2>1, <2>2
  <2> QED BY Zenon, <1>20, <2>3 DEF RenumberEnds
<1>21. ASSUME NEW c \in Ctrs, RefreshContainer(c) PROVE RowsAllocated'
  <2>1. CASE c \in doomed
    <3> DEFINE gone == {c} \cup ({AnonVolume[c]} \cap Vols \cap Rows)
    <3>1. /\ row' = [o \in Objects |-> IF o \in gone THEN Nil ELSE row[o]]
          /\ bitmap' = bitmap \ {row[o] : o \in gone}
      BY Zenon, <1>21, <2>1 DEF RefreshContainer
    <3>2. todo' = [todo EXCEPT ![c] = Nil] /\ UNCHANGED <<mode, faults>> /\ mode = "refresh"
      BY Zenon, <1>21 DEF RefreshContainer
    <3>3. \A o \in Rows' : o \in Rows \ gone /\ row'[o] = row[o] /\ todo'[o] = todo[o]
      BY Zenon, <3>1, <3>2
    <3>4. \A o \in Rows \ gone : Benign => row[o] \notin {row[g] : g \in gone}
      BY <3>2 DEF RowsApart, Objects
    <3> HIDE DEF gone, Rows
    <3> QED BY <3>1, <3>2, <3>3, <3>4
  <2>2. CASE c \notin doomed
    <3>1. bitmap' = bitmap \cup {todo[c]} /\ todo' = [todo EXCEPT ![c] = Nil] /\ c \in ToDo
      BY Zenon, <1>21, <2>2 DEF RefreshContainer
    <3>2. UNCHANGED <<row, mode, faults>> /\ mode = "refresh"
      BY Zenon, <1>21, <2>2 DEF RefreshContainer
    <3>3. todo'[c] = Nil /\ \A o \in Objects \ {c} : todo'[o] = todo[o]
      BY Zenon, <3>1
    <3> QED BY Zenon, <3>1, <3>2, <3>3
  <2> QED BY Zenon, <2>1, <2>2
<1>22. ASSUME NEW o \in Objects, RefreshRest(o) PROVE RowsAllocated'
  BY Zenon, <1>22 DEF RefreshRest
<1>23. ASSUME NEW o \in Objects, RenumberObject(o) PROVE RowsAllocated'
  BY Zenon, <1>23 DEF RenumberObject
<1> QED BY Zenon, <1>1, <1>2, <1>3, <1>4, <1>5, <1>6, <1>7, <1>8, <1>9, <1>10,
           <1>11, <1>12, <1>13, <1>14, <1>15, <1>16, <1>17, <1>18, <1>19,
           <1>20, <1>21, <1>22, <1>23 DEF Next
\* Without kills and evictions a lock goes from the process to the row and back.
LEMMA NextOwned == BaseInv /\ Renumbered /\ Stable /\ Owned /\ [Next]_vars => Owned'
<1> SUFFICES ASSUME BaseInv, Renumbered, Stable, Owned, [Next]_vars PROVE Owned'
  BY Zenon
<1>a1. /\ proc \in [Procs -> ProcType] /\ row \in [Objects -> Locks \cup {Nil}]
  BY Zenon DEF BaseInv, TypeOK
<1>a2. \A p \in Procs : proc[p] # Idle => mode = "up"
  BY Zenon DEF BaseInv, Alone
<1>a3. \A p \in Procs : proc[p] # Idle =>
          proc[p].obj \in Objects /\ proc[p].lock \in Locks
  BY Zenon DEF BaseInv, Busy
<1> USE ObjectAssumption, <1>a1, <1>a2, <1>a3
    DEF Owner, Owned, Rows, ToDo, Idle, exclusive, ProcType
<1>1. CASE UNCHANGED vars
  BY Zenon, <1>1 DEF vars
<1>2. ASSUME NEW p \in Procs, NEW o \in Objects, AllocateLock(p, o) PROVE Owned'
  BY <1>2 DEF AllocateLock
<1>3. ASSUME NEW p \in Procs, NEW o \in Objects, Load(p, o) PROVE Owned'
  BY <1>3 DEF Load
<1>4. ASSUME NEW p \in Procs, AddToState(p) PROVE Owned'
  BY <1>4 DEF AddToState
<1>5. ASSUME NEW p \in Procs, EventWritten(p) PROVE Owned'
  BY Zenon, <1>5 DEF EventWritten
<1>6. ASSUME NEW p \in Procs, CreateFails(p) PROVE Owned'
  BY Zenon, <1>6 DEF CreateFails
<1>7. ASSUME NEW p \in Procs, LockForRemoval(p) PROVE Owned'
  BY <1>7 DEF LockForRemoval
<1>8. ASSUME NEW p \in Procs, ExecWindow(p) PROVE Owned'
  BY <1>8 DEF ExecWindow
<1>9. ASSUME NEW p \in Procs, Relock(p) PROVE Owned'
  BY <1>9 DEF Relock
<1>10. ASSUME NEW p \in Procs, RemoveFromState(p) PROVE Owned'
  <2> SUFFICES ASSUME faults \subseteq {"exec"} PROVE Owned'
    BY Zenon, <1>10 DEF RemoveFromState
  <2>1. row[proc[p].obj] \in {Nil, proc[p].lock}
    BY Zenon, <1>10 DEF RemoveFromState, Stable
  <2>2. row' = [row EXCEPT ![proc[p].obj] = Nil] /\ UNCHANGED <<bitmap, mode, faults>>
    BY Zenon, <1>10 DEF RemoveFromState
  <2>3. /\ Owner(p)' /\ proc'[p].lock = proc[p].lock /\ proc'[p].pc # "created"
        /\ \A q \in Procs \ {p} : proc'[q] = proc[q]
    BY <1>10 DEF RemoveFromState
  <2>4. proc[p].obj \in Objects
    BY <1>10 DEF RemoveFromState
  <2>5. /\ \A r \in Rows : r = proc[p].obj => row[r] = proc[p].lock
        /\ \A r \in Rows : r # proc[p].obj => r \in Rows' /\ row'[r] = row[r]
    BY Zenon, <2>1, <2>2, <2>4
  <2>6. ASSUME NEW l \in bitmap', mode' = "up"
        PROVE  (\E r \in Rows' : row'[r] = l) \/ \E q \in Procs : Owner(q)' /\ proc'[q].lock = l
    <3>1. (\E r \in Rows : row[r] = l) \/ \E q \in Procs : Owner(q) /\ proc[q].lock = l
      BY Zenon, <2>2, <2>6
    <3>2. CASE \E q \in Procs : Owner(q) /\ proc[q].lock = l
      BY <2>3, <3>2
    <3>3. CASE \E r \in Rows : row[r] = l
      <4>1. PICK r \in Rows : row[r] = l
        BY Zenon, <3>3
      <4> HIDE DEF Rows, ProcType
      <4> QED BY Zenon, <2>3, <2>5, <4>1
    <3> QED BY Zenon, <3>1, <3>2, <3>3
  <2> QED BY Zenon, <2>2, <2>3, <2>6
<1>11. ASSUME NEW p \in Procs, RemovalFails(p) PROVE Owned'
  BY Zenon, <1>11 DEF RemovalFails
<1>12. ASSUME NEW p \in Procs, Evict(p) PROVE Owned'
  <2>1. "evict" \in faults'
    BY Zenon, <1>12 DEF Evict
  <2> HIDE DEF Rows, ToDo, Owner, ProcType, Idle
  <2> QED BY Zenon, <2>1
<1>13. ASSUME NEW p \in Procs, Free(p) PROVE Owned'
  <2>1. proc'[p] = Idle \/ proc'[p].pc = "teardown"
    BY <1>13 DEF Free
  <2>2. \A q \in Procs \ {p} : proc'[q] = proc[q]
    BY Zenon, <1>13 DEF Free
  <2>3. \A l \in bitmap' : l \in bitmap /\ l # proc[p].lock
    BY Zenon, <1>13 DEF Free
  <2> QED BY <1>13, <2>1, <2>2, <2>3 DEF Free
<1>14. ASSUME NEW p \in Procs, TeardownStorage(p) PROVE Owned'
  BY Zenon, <1>14 DEF TeardownStorage
<1>15. ASSUME NEW p \in Procs, Die(p) PROVE Owned'
  BY <1>15 DEF Die
<1>16. CASE Reboot
  BY Zenon, <1>16 DEF Reboot, StartRefresh
<1>17. CASE RefreshDone
  BY Zenon, <1>17 DEF RefreshDone
<1>18. CASE RefreshDies
  BY Zenon, <1>18 DEF RefreshDies
<1>19. CASE Renumber
  BY Zenon, <1>19 DEF Renumber
<1>20. CASE RenumberEnds
  BY Zenon, <1>20 DEF RenumberEnds, Renumbered
<1>21. ASSUME NEW c \in Ctrs, RefreshContainer(c) PROVE Owned'
  BY Zenon, <1>21 DEF RefreshContainer
<1>22. ASSUME NEW o \in Objects, RefreshRest(o) PROVE Owned'
  BY Zenon, <1>22 DEF RefreshRest
<1>23. ASSUME NEW o \in Objects, RenumberObject(o) PROVE Owned'
  BY Zenon, <1>23 DEF RenumberObject
<1> QED BY Zenon, <1>1, <1>2, <1>3, <1>4, <1>5, <1>6, <1>7, <1>8, <1>9, <1>10,
           <1>11, <1>12, <1>13, <1>14, <1>15, <1>16, <1>17, <1>18, <1>19,
           <1>20, <1>21, <1>22, <1>23 DEF Next
-----------------------------------------------------------------------------
\* The inductive invariant.
IInv ==
    /\ BaseInv /\ Renumbered /\ Stable
    /\ RemoverHasRow /\ RowsApart /\ OwnersApart /\ RowsAllocated /\ Owned

\* Nothing is allocated and nobody works.
LEMMA InitIInv == Init => IInv
<1> SUFFICES ASSUME Init PROVE IInv
  BY Zenon
<1> USE ObjectAssumption DEF Init
<1>1. \A p \in Procs : proc[p] = Idle /\ proc[p].pc = "idle"
  BY Zenon DEF Idle
<1>2. TypeOK
  BY Zenon, IdleType DEF TypeOK
<1>3. Alone /\ Busy /\ Holds
  BY Zenon, <1>1 DEF Alone, Busy, Holds
<1>4. Renumbered /\ Stable /\ Owned
  BY Zenon, <1>1 DEF Renumbered, Stable, Owned, Owner, Rows
<1>5. RemoverHasRow /\ RowsApart /\ OwnersApart /\ RowsAllocated
  BY Zenon, <1>1 DEF RemoverHasRow, RowsApart, OwnersApart, RowsAllocated, Owner, Rows
<1> QED BY Zenon, <1>2, <1>3, <1>4, <1>5 DEF IInv, BaseInv

\* Every step keeps all of it.
LEMMA NextIInv == IInv /\ [Next]_vars => IInv'
<1> SUFFICES ASSUME IInv, [Next]_vars PROVE IInv'
  BY Zenon
<1> USE DEF IInv, BaseInv
<1>1. TypeOK'
  BY Zenon, NextTypeOK
<1>2. Alone' /\ Busy' /\ Holds'
  BY Zenon, NextAlone, NextBusy, NextHolds
<1>3. Renumbered'
  BY Zenon, NextRenumbered
<1>4. Stable'
  BY Zenon, NextStable
<1>5. RemoverHasRow' /\ RowsApart' /\ OwnersApart' /\ RowsAllocated'
  BY Zenon, NextRemoverHasRow, NextRowsApart, NextOwnersApart, NextRowsAllocated
<1>6. Owned'
  BY Zenon, NextOwned
<1> QED BY Zenon, <1>1, <1>2, <1>3, <1>4, <1>5, <1>6

\* What the proofs below rest on holds in every reachable state.
THEOREM Inductive == Spec => []IInv
  BY InitIInv, NextIInv, PTL DEF Spec

\* Killed processes, reboots and evictions never make two containers, pods or
\* volumes share a lock (setupContainer, removeContainer, refresh), for any number
\* of objects, locks and processes.
THEOREM LocksAreNotShared == Spec => []NoSharedLock
<1>1. IInv => NoSharedLock
  BY Zenon DEF IInv, RowsApart, OwnersApart, RowsAllocated, Benign, Owner, NoSharedLock,
         LocksDistinct, Creating, Rows
<1> QED BY <1>1, Inductive, PTL

\* Whatever went wrong before, a renumbering that finishes (RenumberLocks) leaves
\* every object with a lock of its own and no lock allocated that no object has.
THEOREM RenumberingRepairs == Spec => []RenumberRepairs
<1>1. ASSUME IInv, mode = "renumber", ToDo = {}
      PROVE  bitmap = {row[o] : o \in Rows} /\ Cardinality(bitmap) = Cardinality(Rows)
  <2>1. \A o \in Objects : todo[o] = Nil
    BY Zenon, <1>1 DEF ToDo
  <2>2. bitmap = {row[o] : o \in Rows}
    BY Zenon, <1>1, <2>1 DEF IInv, Renumbered, Rows
  <2>3. \A o1, o2 \in Rows : row[o1] = row[o2] => o1 = o2
    BY Zenon, <1>1, <2>1 DEF IInv, Renumbered, Rows
  <2>4. IsFiniteSet(Rows)
    BY ObjectAssumption, FS_Subset DEF Rows, Objects
  <2> DEFINE f == [o \in Rows |-> row[o]]
  <2>5. f \in Bijection(Rows, bitmap)
    BY Zenon, <2>2, <2>3 DEF Bijection, Injection, Surjection, IsInjective
  <2>6. ExistsBijection(Rows, bitmap)
    BY Zenon, <2>5 DEF ExistsBijection
  <2> QED BY Zenon, <2>2, <2>4, <2>6, FS_Bijection
<1>2. IInv => RenumberRepairs
  BY Zenon, <1>1 DEF RenumberRepairs
<1> QED BY <1>2, Inductive, PTL

\* As long as no process is killed and nothing is evicted, creation and removal
\* leave no lock allocated that no object has, however removals that wait for an
\* exec bundle overlap.
THEOREM NothingLeaks == Spec => []NoLeak
<1>1. IInv => NoLeak
  BY Zenon DEF IInv, Owned, Owner, NoLeak
<1> QED BY <1>1, Inductive, PTL
=============================================================================
